---- MODULE Spec2Model ----
(***************************************************************************)
(* Model of the SUMP3 ILA server (software/sump-server): the DevMem        *)
(* window (devmem.rs), the command protocol of IlaState::exec_cmd and the  *)
(* operations built on it (ila.rs).                                        *)
(*                                                                         *)
(* The specifications share the variables:                                 *)
(*   SpecDevMem  DevMem::read32 / write32 as functions of (size, offset);  *)
(*   SpecMmio    callers running exec_cmd, get_register and the raw reads  *)
(*               of get_info, one MMIO access per step, under the mutex;   *)
(*   SpecOps     the multi-command operations, one command per step;       *)
(*   SpecSched   the handlers of the state commands on the one thread of   *)
(*               the runtime;                                              *)
(*   SpecSignals generate_norom_signals as a function of its arguments;    *)
(*   SpecInfo    get_info enumerating a device, one command per step;      *)
(*   SpecTerm    SpecMmio with two callers whose steps are fair;           *)
(*   SpecConc    two callers of captures, enumerations, status requests    *)
(*               and register reads, one command per step.                 *)
(***************************************************************************)
EXTENDS Integers, Sequences, FiniteSets, TLC

\* ------------------------------------------------------------------------
\* Program constants
\* ------------------------------------------------------------------------
ILA_SIZE == 256
REG_CMD == 0
REG_ADDR == 4
REG_WDATA == 8
REG_CTRL == 12
REG_STATUS == 16
REG_RDATA == 20
REG_HW_INFO == 28
REG_CAP_STATUS == 32
CMD_RD_STATUS == 18
CMD_RD_HUB_FREQ == 48
CMD_RD_POD_COUNT == 49
CMD_RD_POD_REG == 50
CMD_RD_HUB_NAME_0_3 == 54
CMD_RD_HUB_NAME_4_7 == 55
CMD_RD_HUB_NAME_8_11 == 56
CMD_WR_POD_REG == 64
CMD_ARM == 1
CMD_RESET == 2
CMD_INIT == 3
CMD_WR_TRIG_TYPE == 35
CMD_WR_TRIG_DIG_FIELD == 36
CMD_WR_DIG_POST_TRIG == 42
POD_REG_HW_CFG == 0
POD_REG_TRIG_CFG == 3
POD_REG_TRIG_EN == 4
TRIG_OR_RISING == 2
TRIG_OR_FALLING == 3
TRIG_EXT_RISING == 6
POD_REG_RAM_PTR == 8
POD_REG_RAM_DATA == 9
POD_REG_RAM_CFG == 10
POD_REG_TRIGGERABLE == 14
POD_REG_NAME_0_3 == 29
POD_REG_NAME_4_7 == 30
POD_REG_NAME_8_11 == 31
CTRL_START == 1
\* the poll loop of exec_cmd: for _ in 0..100000
PollLimit == 100000
\* capture never reads more than 2048 samples
CaptureMax == 2048

\* ------------------------------------------------------------------------
\* Bounds of the model
\* ------------------------------------------------------------------------
\* number of concurrent callers of SpecMmio
NumCallers == 2
\* the commands of one get_info call that fail
MaxFaults == 3
\* width in bits of the machine word (usize) of the model
UsizeBits == 16

Callers == 1..NumCallers

\* Option<u32>: None is the empty tuple, Some(v) the one-element tuple
None == <<>>
Some(v) == <<v>>
IsSome(o) == o # None

RECURSIVE Pow2(_)
Pow2(n) == IF n = 0 THEN 1 ELSE 2 * Pow2(n - 1)

Min(a, b) == IF a <= b THEN a ELSE b

\* bit b of the register value v
Bit(v, b) == (v \div Pow2(b)) % 2 = 1

VARIABLES
    build,      \* "debug" (overflow checks on) or "release" (wrapping);
                \* "any" until the first overflow shows which it is
    dm,         \* SpecDevMem: the last read32/write32 call and what it did
    mutex,      \* holder of IlaState.mem, 0 when free
    pc,         \* position of each caller
    args,       \* arguments of each caller's operation
    polls,      \* STATUS reads of the caller's exec_cmd so far
    ret,        \* return value of the caller's operation
    trace,      \* MMIO accesses of the caller's operation, in order
    hw,         \* the device: behaviour of the command in flight
    lastAcc,    \* the caller that made the latest access to the window
    loc,        \* SpecOps: arguments and local variables of each caller
    cmds,       \* SpecOps: the commands of the caller's operation (from its
                \* latest call of read_rle_sample on), each with its result
    dev,        \* SpecOps: the pod behind the commands
    thread      \* SpecSched: the task the runtime's one thread is running
                \* (0: none)

opsVars == <<loc, cmds, dev, thread>>
mmioVars == <<mutex, pc, args, polls, ret, trace, hw, lastAcc>>
vars == <<build, dm, mutex, pc, args, polls, ret, trace, hw, lastAcc, loc, cmds, dev,
          thread>>

\* ------------------------------------------------------------------------
\* DevMem (devmem.rs)
\* ------------------------------------------------------------------------
UsizeMod == Pow2(UsizeBits)
UsizeMax == UsizeMod - 1

\* the builds a run may still turn out to be
Builds == IF build = "any" THEN {"debug", "release"} ELSE {build}

\* offset + 4 > self.size, the bounds test of read32 and write32.  The sum
\* is a usize addition: a debug build panics when it overflows, a release
\* build wraps.  "access": the volatile access at ptr.add(offset) is made.
BoundsCheck(b, offset, size) ==
    IF offset + 4 > UsizeMax
    THEN IF b = "debug" THEN "panic"
         ELSE IF (offset + 4) % UsizeMod > size THEN "none" ELSE "access"
    ELSE IF offset + 4 > size THEN "none" ELSE "access"

\* ------------------------------------------------------------------------
\* The device behind the window
\* ------------------------------------------------------------------------
STATUS_DONE == 2
STATUS_ERR == 4

\* A command started by CTRL=START shows DONE from its doneAt-th STATUS
\* read on; err is the ERR bit shown with DONE, errEarly tells whether ERR
\* is already visible while the command is busy.  A late command is busy
\* for PollLimit - 1 reads and from then on shows DONE or stays busy.
HwFast ==
    [doneAt : {1, 2}, err : BOOLEAN, errEarly : {FALSE}, late : {FALSE}, reads : {0}]
    \cup {[doneAt |-> 2, err |-> TRUE, errEarly |-> TRUE, late |-> FALSE, reads |-> 0]}

HwLate == [doneAt |-> PollLimit, err |-> FALSE, errEarly |-> FALSE, late |-> TRUE, reads |-> 0]

\* the behaviours the device may show for command cmd of caller t: any
\* fast one; for the reads of the first caller (the callers are alike)
\* also the late one
HwBehaviours(t, cmd) ==
    HwFast \cup (IF t = 1 /\ cmd = CMD_RD_POD_REG THEN {HwLate} ELSE {})

HwIdle == [doneAt |-> 1, err |-> FALSE, errEarly |-> FALSE, late |-> FALSE, reads |-> 0]

\* the values STATUS may show once `reads` reads have been made since START
StatusValues(h, reads) ==
    IF reads >= h.doneAt
    THEN {STATUS_DONE + (IF h.err THEN STATUS_ERR ELSE 0)} \cup (IF h.late THEN {0} ELSE {})
    ELSE {IF h.errEarly THEN STATUS_ERR ELSE 0}

\* values the data registers (RDATA, HW_INFO, CAP_STATUS, ...) may hold
RegValues == {0, 1392705793, 305419896}

\* ------------------------------------------------------------------------
\* SpecMmio: one MMIO access per step
\* ------------------------------------------------------------------------
NoArgs == [op |-> "none", cmd |-> 0, addr |-> 0, wdata |-> 0, offset |-> 0]

\* the locals of get_info before its first statement
InfoIdle ==
    [hw_info |-> 0, cap_status |-> 0, hub_idx |-> 0, pod_idx |-> 0, chunk |-> 0,
     bytes |-> <<>>, name |-> <<>>, freq_mhz |-> 0, pod_count |-> 0, pods |-> <<>>,
     pod_name |-> <<>>, hw_cfg |-> 0, ram_cfg |-> 0, ram_depth |-> 0, hubs |-> <<>>]

\* the locals of a caller that is in none of the pod operations
LocIdle ==
    [hub |-> 0, pod |-> 0, count |-> 0, addr |-> 0, tsb |-> 0, data |-> 0,
     hi |-> 0, sample |-> None, status_val |-> 0, cfg_read |-> None,
     ts_bits |-> 0, data_bits |-> 0, ram_depth |-> 0,
     sample_count |-> 0, i |-> 0, samples |-> <<>>, attempts |-> <<>>,
     trigger_type |-> "", trigger_bits |-> 0, post_trigger |-> 0,
     trig_type |-> 0, trig_bits |-> 0, success |-> FALSE, waits |-> <<>>,
     pod_name |-> <<>>, view_dwords |-> FALSE, view_words |-> FALSE,
     view_bytes |-> FALSE, view_bits |-> FALSE, rle_disable |-> FALSE,
     info |-> InfoIdle]

\* a pod whose RAM_CFG reads 0 and whose commands all succeed
DevIdle == [cfg |-> 0, flaky |-> FALSE, ptr |-> 0, info |-> 0]

\* no caller is in a pod operation
OpsIdle ==
    /\ loc = [t \in Callers |-> LocIdle]
    /\ cmds = [t \in Callers |-> <<>>]
    /\ dev = DevIdle
    /\ thread = 0

\* the (cmd, addr, wdata) triples the callers of SpecMmio pass to exec_cmd
CmdInputs ==
    {[op |-> "exec_cmd", cmd |-> CMD_RD_POD_REG, addr |-> 66057, wdata |-> 0, offset |-> 0],
     [op |-> "exec_cmd", cmd |-> CMD_WR_POD_REG, addr |-> 8, wdata |-> 5, offset |-> 0]}

\* the offsets the callers of SpecMmio pass to get_register
RegOffsets == {2, REG_STATUS, REG_HW_INFO, 253, ILA_SIZE}

\* the access log: an access equal to the previous one is counted, not appended
Observe(tr, k, off, val) ==
    IF Len(tr) > 0 /\ tr[Len(tr)].k = k /\ tr[Len(tr)].off = off /\ tr[Len(tr)].val = val
    THEN [tr EXCEPT ![Len(tr)].n = @ + 1]
    ELSE Append(tr, [k |-> k, off |-> off, val |-> val, n |-> 1])

\* the bounds test of an access to the ILA window (DevMem::new(base_addr,
\* ILA_SIZE)); the offsets of this layer are far below the overflow of
\* offset + 4, so the test comes out the same in every build
WindowCheck(off) == BoundsCheck("release", off, ILA_SIZE)

\* self.mem.lock(): parking_lot::Mutex, acquired only when free
CanLockNoMutex(t) == TRUE

CanLock(t) == mutex = 0

\* mem.write32(off, val) by caller t, moving to position next
Write32(t, off, val, next) ==
    /\ LET chk == WindowCheck(off) IN
        /\ chk # "panic"
        /\ trace' = [trace EXCEPT ![t] =
                        IF chk = "access" THEN Observe(@, "w", off, val) ELSE @]
        /\ lastAcc' = IF chk = "access" THEN t ELSE lastAcc
    /\ pc' = [pc EXCEPT ![t] = next]

\* the callers in `active` are about to call, the others make no call
MmioInit(active) ==
    /\ mutex = 0
    /\ pc = [t \in Callers |-> IF t \in active THEN "start" ELSE "done"]
    /\ args = [t \in Callers |-> NoArgs]
    /\ polls = [t \in Callers |-> 0]
    /\ ret = [t \in Callers |-> None]
    /\ trace = [t \in Callers |-> <<>>]
    /\ hw = HwIdle
    /\ lastAcc = 0

\* exec_cmd: let mem = self.mem.lock();
ExecCmdLock(t) ==
    /\ pc[t] = "start"
    /\ CanLock(t)
    /\ \E a \in CmdInputs : args' = [args EXCEPT ![t] = a]
    /\ mutex' = t
    /\ pc' = [pc EXCEPT ![t] = "wr_cmd"]
    /\ UNCHANGED <<opsVars, build, dm, polls, ret, trace, hw, lastAcc>>

\* mem.write32(REG_CMD, cmd);
ExecCmdWriteCmd(t) ==
    /\ pc[t] = "wr_cmd"
    /\ Write32(t, REG_CMD, args[t].cmd, "wr_addr")
    /\ UNCHANGED <<opsVars, build, dm, mutex, args, polls, ret, hw>>

\* mem.write32(REG_ADDR, addr);
ExecCmdWriteAddr(t) ==
    /\ pc[t] = "wr_addr"
    /\ Write32(t, REG_ADDR, args[t].addr, "wr_wdata")
    /\ UNCHANGED <<opsVars, build, dm, mutex, args, polls, ret, hw>>

\* mem.write32(REG_WDATA, wdata);
ExecCmdWriteWdataSkipped(t) ==
    /\ pc[t] = "wr_wdata"
    /\ pc' = [pc EXCEPT ![t] = "wr_ctrl"]
    /\ UNCHANGED <<opsVars, build, dm, mutex, args, polls, ret, trace, hw, lastAcc>>

ExecCmdWriteWdata(t) ==
    /\ pc[t] = "wr_wdata"
    /\ Write32(t, REG_WDATA, args[t].wdata, "wr_ctrl")
    /\ UNCHANGED <<opsVars, build, dm, mutex, args, polls, ret, hw>>

\* mem.write32(REG_CTRL, CTRL_START); the device starts the command
ExecCmdWriteCtrl(t) ==
    /\ pc[t] = "wr_ctrl"
    /\ Write32(t, REG_CTRL, CTRL_START, "poll")
    /\ \E h \in HwBehaviours(t, args[t].cmd) : hw' = h
    /\ polls' = [polls EXCEPT ![t] = 0]
    /\ UNCHANGED <<opsVars, build, dm, mutex, args, ret>>

\* one iteration of: for _ in 0..100000 { let status = mem.read32(REG_STATUS)?; ... }
\* DONE with ERR returns None, DONE without ERR goes on to read RDATA
PollStepIgnoresErr(t, status) ==
    IF Bit(status, 1) THEN "rd_rdata" ELSE "poll"

PollStep(t, status) ==
    IF Bit(status, 1)
    THEN IF Bit(status, 2) THEN "ret" ELSE "rd_rdata"
    ELSE "poll"

\* the loop runs while fewer than 100000 reads were made
PollAgainOffByOne(t) == polls[t] < PollLimit + 1

PollAgain(t) == polls[t] < PollLimit

ExecCmdPoll(t) ==
    /\ pc[t] = "poll"
    /\ PollAgain(t)
    /\ \E status \in StatusValues(hw, hw.reads + 1) :
       LET chk == WindowCheck(REG_STATUS)
           next == IF chk = "access" THEN PollStep(t, status) ELSE "ret"
       IN
        /\ chk # "panic"
        /\ trace' = [trace EXCEPT ![t] =
                        IF chk = "access" THEN Observe(@, "r", REG_STATUS, status) ELSE @]
        /\ lastAcc' = IF chk = "access" THEN t ELSE lastAcc
        /\ hw' = IF chk = "access" THEN [hw EXCEPT !.reads = @ + 1] ELSE hw
        /\ polls' = [polls EXCEPT ![t] = IF chk = "access" THEN @ + 1 ELSE @]
        /\ pc' = [pc EXCEPT ![t] = next]
        /\ ret' = [ret EXCEPT ![t] = None]
    /\ UNCHANGED <<opsVars, build, dm, mutex, args>>

\* the loop is exhausted: tracing::warn!(... timeout); None
ExecCmdTimeout(t) ==
    /\ pc[t] = "poll"
    /\ ~PollAgain(t)
    /\ ret' = [ret EXCEPT ![t] = None]
    /\ pc' = [pc EXCEPT ![t] = "ret"]
    /\ UNCHANGED <<opsVars, build, dm, mutex, args, polls, trace, hw, lastAcc>>

\* return mem.read32(REG_RDATA);
ExecCmdReadRdata(t) ==
    /\ pc[t] = "rd_rdata"
    /\ LET chk == WindowCheck(REG_RDATA) IN
        /\ chk # "panic"
        /\ \E v \in RegValues :
            /\ trace' = [trace EXCEPT ![t] =
                            IF chk = "access" THEN Observe(@, "r", REG_RDATA, v) ELSE @]
            /\ ret' = [ret EXCEPT ![t] = IF chk = "access" THEN Some(v) ELSE None]
        /\ lastAcc' = IF chk = "access" THEN t ELSE lastAcc
    /\ pc' = [pc EXCEPT ![t] = "ret"]
    /\ UNCHANGED <<opsVars, build, dm, mutex, args, polls, hw>>

\* get_register: if offset < ILA_SIZE { let mem = state.mem.lock(); ...
GetRegisterLock(t) ==
    /\ pc[t] = "start"
    /\ \E off \in RegOffsets :
        /\ off < ILA_SIZE
        /\ args' = [args EXCEPT ![t] = [NoArgs EXCEPT !.op = "get_register", !.offset = off]]
    /\ CanLock(t)
    /\ mutex' = t
    /\ pc' = [pc EXCEPT ![t] = "reg_read"]
    /\ UNCHANGED <<opsVars, build, dm, polls, ret, trace, hw, lastAcc>>

\* read32 passes self.ptr.add(offset) as *const u32 to read_volatile with
\* no test of the alignment
Misaligned(off) == off % 4 # 0

\* ... mem.read32(offset) }: the guard is dropped at the end of the block.
\* A misaligned read_volatile is undefined: the build either makes the
\* access and returns what it read, or the process is aborted at it (the
\* pointer check of a build with debug assertions, an alignment fault of
\* the device mapping)
GetRegisterRead(t) ==
    /\ pc[t] = "reg_read"
    /\ LET off == args[t].offset
           chk == WindowCheck(off)
       IN
        /\ chk # "panic"
        /\ \/ /\ \E v \in (IF off = REG_STATUS THEN StatusValues(hw, hw.reads) ELSE RegValues) :
                  /\ trace' = [trace EXCEPT ![t] =
                                  IF chk = "access" THEN Observe(@, "r", off, v) ELSE @]
                  /\ ret' = [ret EXCEPT ![t] = IF chk = "access" THEN Some(v) ELSE None]
              /\ lastAcc' = IF chk = "access" THEN t ELSE lastAcc
              /\ pc' = [pc EXCEPT ![t] = "ret"]
           \/ /\ chk = "access" /\ Misaligned(off)
              /\ pc' = [u \in Callers |-> "abort"]
              /\ UNCHANGED <<trace, ret, lastAcc>>
    /\ UNCHANGED <<opsVars, build, dm, mutex, args, polls, hw>>

\* get_register: ... } else { None }
GetRegisterOob(t) ==
    /\ pc[t] = "start"
    /\ \E off \in RegOffsets :
        /\ ~(off < ILA_SIZE)
        /\ args' = [args EXCEPT ![t] = [NoArgs EXCEPT !.op = "get_register", !.offset = off]]
    /\ ret' = [ret EXCEPT ![t] = None]
    /\ pc' = [pc EXCEPT ![t] = "ret"]
    /\ UNCHANGED <<opsVars, build, dm, mutex, polls, trace, hw, lastAcc>>

\* get_info: let mem = state.mem.lock();
InfoLockHwInfo(t) ==
    /\ pc[t] = "start"
    /\ CanLock(t)
    /\ args' = [args EXCEPT ![t] = [NoArgs EXCEPT !.op = "get_info"]]
    /\ mutex' = t
    /\ pc' = [pc EXCEPT ![t] = "info_rd_hw"]
    /\ UNCHANGED <<opsVars, build, dm, polls, ret, trace, hw, lastAcc>>

\* a raw read of get_info: mem.read32(off).unwrap_or(0); drop(mem);
\* (the value read is decoded by the enumeration, see SpecOps)
InfoRead(t, off, next) ==
    /\ LET chk == WindowCheck(off) IN
        /\ chk # "panic"
        /\ trace' = [trace EXCEPT ![t] =
                        IF chk = "access" THEN Observe(@, "r", off, 0) ELSE @]
        /\ lastAcc' = IF chk = "access" THEN t ELSE lastAcc
    /\ pc' = [pc EXCEPT ![t] = next]
    /\ mutex' = 0
    /\ UNCHANGED <<opsVars, build, dm, args, polls, ret, hw>>

InfoReadHwInfo(t) ==
    /\ pc[t] = "info_rd_hw"
    /\ InfoRead(t, REG_HW_INFO, "info_lock_cap")

\* get_info: the second let mem = state.mem.lock();
InfoLockCapStatus(t) ==
    /\ pc[t] = "info_lock_cap"
    /\ CanLock(t)
    /\ mutex' = t
    /\ pc' = [pc EXCEPT ![t] = "info_rd_cap"]
    /\ UNCHANGED <<opsVars, build, dm, args, polls, ret, trace, hw, lastAcc>>

InfoReadCapStatus(t) ==
    /\ pc[t] = "info_rd_cap"
    /\ InfoRead(t, REG_CAP_STATUS, "info_enum")

\* whether the operation of caller t returns with the MutexGuard alive
HoldsGuard(t) ==
    \/ args[t].op = "exec_cmd"
    \/ args[t].op = "get_register" /\ args[t].offset < ILA_SIZE

\* the operation returns: the MutexGuard (if any) is dropped, the caller
\* takes the result and the call's record is gone
Return(t) ==
    /\ pc[t] \in {"ret", "info_enum"}
    /\ mutex' = IF HoldsGuard(t) THEN 0 ELSE mutex
    /\ pc' = [pc EXCEPT ![t] = "done"]
    /\ args' = [args EXCEPT ![t] = NoArgs]
    /\ polls' = [polls EXCEPT ![t] = 0]
    /\ ret' = [ret EXCEPT ![t] = None]
    /\ trace' = [trace EXCEPT ![t] = <<>>]
    /\ loc' = [loc EXCEPT ![t] = LocIdle]
    /\ cmds' = [cmds EXCEPT ![t] = <<>>]
    /\ thread' = IF thread = t THEN 0 ELSE thread
    /\ UNCHANGED <<build, dm, hw, lastAcc, dev>>

\* dm: the latest call of read32/write32: its window size and offset, what
\* the bounds test made of it ("none", "access" or "panic"), the offset
\* accessed, and the result (res of read32, ok of write32)
DmIdle == [op |-> "none", size |-> 0, offset |-> 0, outcome |-> "none", at |-> 0,
           res |-> None, ok |-> FALSE]

InitMmio ==
    /\ build = "any"
    /\ dm = DmIdle
    /\ MmioInit(Callers)
    /\ OpsIdle

\* a single caller
InitCmd ==
    /\ build = "any"
    /\ dm = DmIdle
    /\ MmioInit({1})
    /\ OpsIdle

NextMmio ==
    \E t \in Callers :
        \/ ExecCmdLock(t)
        \/ ExecCmdWriteCmd(t)
        \/ ExecCmdWriteAddr(t)
        \/ ExecCmdWriteWdata(t)
        \/ ExecCmdWriteCtrl(t)
        \/ ExecCmdPoll(t)
        \/ ExecCmdTimeout(t)
        \/ ExecCmdReadRdata(t)
        \/ GetRegisterLock(t)
        \/ GetRegisterRead(t)
        \/ GetRegisterOob(t)
        \/ InfoLockHwInfo(t)
        \/ InfoReadHwInfo(t)
        \/ InfoLockCapStatus(t)
        \/ InfoReadCapStatus(t)
        \/ Return(t)

SpecMmio == InitMmio /\ [][NextMmio]_vars

SpecCmd == InitCmd /\ [][NextMmio]_vars

\* two callers whose steps are not delayed for ever: a thread that can run
\* is scheduled, and parking_lot wakes a waiter when the mutex is unlocked
InitTerm ==
    /\ build = "any"
    /\ dm = DmIdle
    /\ MmioInit({1, 2})
    /\ OpsIdle

SpecTerm == InitTerm /\ [][NextMmio]_vars /\ WF_vars(NextMmio)

\* ------------------------------------------------------------------------
\* SpecDevMem: read32 and write32 on windows of several sizes
\* ------------------------------------------------------------------------
\* sizes of the windows and offsets passed: around 0, around the end of
\* the window and around the largest usize
DmSizes == {0, 2, 3, 4, 7, 8, 256}
DmOffsets(size) ==
    {o \in (0..9) \cup ((size - 5)..(size + 2)) \cup ((UsizeMax - 5)..UsizeMax) :
        o >= 0 /\ o <= UsizeMax}
DmValues == {0, 305419896}

\* the word the backing memory holds at byte offset o of the window
MemWord(o) == 1000 + o

\* pub fn read32(&self, offset: usize) -> Option<u32>
DmRead32 ==
    \E size \in DmSizes : \E offset \in DmOffsets(size) : \E b \in Builds :
        LET chk == BoundsCheck(b, offset, size) IN
        /\ dm' = [op |-> "read32", size |-> size, offset |-> offset, outcome |-> chk,
                  at |-> IF chk = "access" THEN offset ELSE 0,
                  res |-> IF chk = "access" THEN Some(MemWord(offset)) ELSE None,
                  ok |-> FALSE]
        /\ build' = IF offset + 4 > UsizeMax THEN b ELSE build
        /\ UNCHANGED <<mmioVars, opsVars>>

\* pub fn write32(&self, offset: usize, value: u32) -> bool
DmWrite32 ==
    \E size \in DmSizes : \E offset \in DmOffsets(size) : \E b \in Builds :
    \E value \in DmValues :
        LET chk == BoundsCheck(b, offset, size) IN
        /\ dm' = [op |-> "write32", size |-> size, offset |-> offset, outcome |-> chk,
                  at |-> IF chk = "access" THEN offset ELSE 0,
                  res |-> None,
                  ok |-> (chk = "access")]
        /\ build' = IF offset + 4 > UsizeMax THEN b ELSE build
        /\ UNCHANGED <<mmioVars, opsVars>>

InitDevMem ==
    /\ build = "any"
    /\ dm = DmIdle
    /\ MmioInit({})
    /\ OpsIdle

NextDevMem == DmRead32 \/ DmWrite32

SpecDevMem == InitDevMem /\ [][NextDevMem]_vars

\* ------------------------------------------------------------------------
\* SpecOps: one command per step (exec_cmd runs under the mutex, so its
\* accesses are one step of the caller)
\* ------------------------------------------------------------------------
\* bitwise operations on u32 values below 2^31
RECURSIVE BitAnd(_, _)
BitAnd(a, b) ==
    IF a = 0 \/ b = 0 THEN 0
    ELSE (a % 2) * (b % 2) + 2 * BitAnd(a \div 2, b \div 2)

RECURSIVE BitOr(_, _)
BitOr(a, b) ==
    IF a = 0 THEN b ELSE IF b = 0 THEN a
    ELSE (IF a % 2 = 1 \/ b % 2 = 1 THEN 1 ELSE 0) + 2 * BitOr(a \div 2, b \div 2)

Shr(v, s) == IF s >= 31 THEN 0 ELSE v \div Pow2(s)

\* a shift of a u32 by n: n >= 32 overflows, which panics in a build with
\* overflow checks and shifts by the low five bits of n in one without
ShiftOverflows(n) == n >= 32
ShiftAmount(n) == n % 32

\* the pod: RAM_CFG packs depth_bits, data_bits and ts_bits
RamCfg(ts_bits, data_bits, depth_bits) == ts_bits * 16777216 + data_bits * 256 + depth_bits

\* the pods of SpecOps: a flaky pod may fail or time out any command
DevProfiles ==
    {[cfg |-> RamCfg(c[1], c[2], c[3]), flaky |-> TRUE, ptr |-> 0, info |-> 0] :
        c \in {<<16, 8, 0>>, <<16, 8, 2>>, <<4, 33, 1>>, <<32, 8, 1>>,
               <<40, 8, 0>>, <<16, 8, 32>>, <<16, 8, 33>>, <<33, 8, 2>>}}
    \cup
    {[cfg |-> RamCfg(c[1], c[2], c[3]), flaky |-> FALSE, ptr |-> 0, info |-> 0] :
        c \in {<<16, 8, 8>>, <<16, 8, 6>>, <<16, 8, 12>>, <<0, 0, 0>>}}

\* the upper words of the pod's RAM (page 1), by address
HiWords == <<2147483647, 715827882, 196613, 0>>

\* the RAM word the pointer p selects: bit 20 is the page
RamWord(p) ==
    IF Bit(p, 20) THEN HiWords[(p % 4) + 1] ELSE 305419896 + (p % 1048576)

\* the capture status word of the device
CapStatusWord == 13

\* four name bytes in one register value, the first in the top byte
NameWord(a, b, c, d) == ((a * 256 + b) * 256 + c) * 256 + d

\* a pod of an enumerated device: its name registers, HW_CFG, RAM_CFG and
\* TRIGGERABLE
InfoPod(name, hw_cfg, ram_cfg, triggerable) ==
    [name |-> name, hw_cfg |-> hw_cfg, ram_cfg |-> ram_cfg, triggerable |-> triggerable]

\* the name registers of "pod0", "adc_iq", "hub0" (padded with spaces) and
\* of a block that was never named (NUL bytes)
NamePod0 == <<NameWord(112, 111, 100, 48), NameWord(32, 32, 32, 32), NameWord(32, 32, 32, 32)>>
NameAdcIq == <<NameWord(97, 100, 99, 95), NameWord(105, 113, 32, 32), NameWord(32, 32, 32, 32)>>
NameHub0 == <<NameWord(32, 104, 117, 98), NameWord(48, 32, 32, 32), NameWord(32, 32, 32, 32)>>
NameUnset == <<0, 0, 0>>

\* the devices get_info enumerates: HW_INFO, and per hub the name, the
\* frequency word, the RD_POD_COUNT word and the pods
\*   1  "S2" rev 1, one hub at 100 MHz, one pod (rev 2, dwords view,
\*      RAM_CFG 0x10080008); any command may fail
\*   2  two hubs, pod count words 0x01 and 0x0103: an ADC I/Q pod of 33
\*      bits; a bits-view pod, a bytes-view pod without RLE and a pod with
\*      a view ROM
\*   3  no device: HW_INFO reads 0
\*   4  an ID that is not "S2" (0x5304), hub count 2
\*   5  one pod with depth_bits 32                     (any command may fail)
\*   6  one pod with data_bits 65535 in dwords view
\*   7  "S2" with hub count 0
\*   8  one hub whose pod count word is 0x0100         (any command may fail)
\*   9  one pod with depth_bits 40 and a words view of 65521 bits
\*  10  "S3" rev 1, one hub (frequency word 0x0A000000), one pod with
\*      HW_CFG 0x02000802 and RAM_CFG 0x10080008
\*  11  an ID whose second byte is not ASCII (0x53E9)
\*  12  one hub, one pod with a RAM of two samples
InfoDevices ==
    << [hw_info |-> 1392705793, flaky |-> TRUE,
        hubs |-> << [name |-> NameHub0, freq |-> 104857600, pod_count |-> 1,
                     pods |-> << InfoPod(NamePod0, 33556480, RamCfg(16, 8, 8), 1) >>] >>],
       [hw_info |-> 1392706049, flaky |-> FALSE,
        hubs |-> << [name |-> NameHub0, freq |-> 104857600, pod_count |-> 1,
                     pods |-> << InfoPod(NameAdcIq, 1024, RamCfg(8, 33, 4), 0) >>],
                    [name |-> NameUnset, freq |-> 52428800, pod_count |-> 259,
                     pods |-> << InfoPod(NamePod0, 256, RamCfg(16, 8, 4), 255),
                                 InfoPod(NameAdcIq, 516, RamCfg(0, 24, 0), 1),
                                 InfoPod(NameUnset, 16777218, RamCfg(127, 12, 30), 0) >>] >>],
       [hw_info |-> 0, flaky |-> FALSE, hubs |-> <<>>],
       [hw_info |-> 1392771585, flaky |-> FALSE,
        hubs |-> << [name |-> NameHub0, freq |-> 0, pod_count |-> 1,
                     pods |-> << InfoPod(NamePod0, 2048, RamCfg(16, 8, 8), 1) >>],
                    [name |-> NameHub0, freq |-> 0, pod_count |-> 0, pods |-> <<>>] >>],
       [hw_info |-> 1392705793, flaky |-> TRUE,
        hubs |-> << [name |-> NameHub0, freq |-> 104857600, pod_count |-> 1,
                     pods |-> << InfoPod(NamePod0, 2048, RamCfg(16, 8, 32), 1) >>] >>],
       [hw_info |-> 1392705793, flaky |-> FALSE,
        hubs |-> << [name |-> NameHub0, freq |-> 104857600, pod_count |-> 1,
                     pods |-> << InfoPod(NamePod0, 2048, RamCfg(16, 65535, 10), 1) >>] >>],
       [hw_info |-> 1392705537, flaky |-> FALSE, hubs |-> <<>>],
       [hw_info |-> 1392705793, flaky |-> TRUE,
        hubs |-> << [name |-> NameHub0, freq |-> 104857600, pod_count |-> 256,
                     pods |-> <<>>] >>],
       [hw_info |-> 1392705793, flaky |-> FALSE,
        hubs |-> << [name |-> NameHub0, freq |-> 104857600, pod_count |-> 1,
                     pods |-> << InfoPod(NamePod0, 1024, RamCfg(16, 65521, 40), 1) >>] >> ],
       [hw_info |-> 1392705793, flaky |-> FALSE,
        hubs |-> << [name |-> NameHub0, freq |-> 167772160, pod_count |-> 1,
                     pods |-> << InfoPod(NamePod0, 33556482, 268959752, 1) >>] >> ],
       [hw_info |-> 1407779073, flaky |-> FALSE, hubs |-> <<>>],
       [hw_info |-> 1392705793, flaky |-> FALSE,
        hubs |-> << [name |-> NameHub0, freq |-> 104857600, pod_count |-> 1,
                     pods |-> << InfoPod(NamePod0, 2048, RamCfg(16, 8, 1), 1) >>] >> ] >>

\* RDATA of an enumeration command of device d: the fields of ADDR pick the
\* hub and the pod; what the device does not have reads 0
InfoRdata(d, cmd, addr) ==
    LET hub == addr \div 65536
        pod == (addr \div 256) % 256
        reg == addr % 256
        hubs == InfoDevices[d].hubs
    IN  IF hub >= Len(hubs) THEN 0
        ELSE LET h == hubs[hub + 1] IN
            IF cmd = CMD_RD_HUB_NAME_0_3 THEN h.name[1]
            ELSE IF cmd = CMD_RD_HUB_NAME_4_7 THEN h.name[2]
            ELSE IF cmd = CMD_RD_HUB_NAME_8_11 THEN h.name[3]
            ELSE IF cmd = CMD_RD_HUB_FREQ THEN h.freq
            ELSE IF cmd = CMD_RD_POD_COUNT THEN h.pod_count
            ELSE IF cmd # CMD_RD_POD_REG \/ pod >= Len(h.pods) THEN 0
            ELSE LET p == h.pods[pod + 1] IN
                IF reg = POD_REG_NAME_0_3 THEN p.name[1]
                ELSE IF reg = POD_REG_NAME_4_7 THEN p.name[2]
                ELSE IF reg = POD_REG_NAME_8_11 THEN p.name[3]
                ELSE IF reg = POD_REG_HW_CFG THEN p.hw_cfg
                ELSE IF reg = POD_REG_RAM_CFG THEN p.ram_cfg
                ELSE IF reg = POD_REG_TRIGGERABLE THEN p.triggerable
                ELSE 0

\* how a command may end: DONE without ERR within the polls, ERR, no DONE
CmdOutcomes == IF dev.flaky THEN {"ok", "err", "timeout"} ELSE {"ok"}

\* RDATA once the command is done
DevRdata(cmd, addr) ==
    IF cmd = CMD_RD_STATUS THEN CapStatusWord
    ELSE IF cmd = CMD_RD_POD_REG /\ addr % 256 = POD_REG_RAM_DATA THEN RamWord(dev.ptr)
    ELSE IF dev.info # 0 THEN InfoRdata(dev.info, cmd, addr)
    ELSE IF cmd = CMD_RD_POD_REG /\ addr % 256 = POD_REG_RAM_CFG THEN dev.cfg
    ELSE 0

\* the pod after the command: a RAM_PTR write that succeeds moves the pointer
DevAfter(cmd, addr, wdata, outcome) ==
    IF cmd = CMD_WR_POD_REG /\ addr % 256 = POD_REG_RAM_PTR /\ outcome = "ok"
    THEN [dev EXCEPT !.ptr = wdata]
    ELSE dev

\* exec_cmd's return value
ExecCmdResult(outcome, rdata) == IF outcome = "ok" THEN Some(rdata) ELSE None

CmdResult(cmd, addr, outcome) == ExecCmdResult(outcome, DevRdata(cmd, addr))

\* exec_cmd(cmd, addr, wdata) by caller t, ending as outcome: the guard of
\* the mutex is a local of exec_cmd, so the mutex is free again when the
\* command returns
ExecCmdKeepsLock(t, cmd, addr, wdata, outcome) ==
    /\ CanLock(t)
    /\ cmds' = [cmds EXCEPT ![t] = Append(@, [cmd |-> cmd, addr |-> addr, wdata |-> wdata,
                                              res |-> CmdResult(cmd, addr, outcome)])]
    /\ dev' = DevAfter(cmd, addr, wdata, outcome)
    /\ mutex' = t
    /\ UNCHANGED <<dm, polls, trace, hw, lastAcc, thread>>

ExecCmd(t, cmd, addr, wdata, outcome) ==
    /\ CanLock(t)
    /\ cmds' = [cmds EXCEPT ![t] = Append(@, [cmd |-> cmd, addr |-> addr, wdata |-> wdata,
                                              res |-> CmdResult(cmd, addr, outcome)])]
    /\ dev' = DevAfter(cmd, addr, wdata, outcome)
    /\ UNCHANGED <<dm, mutex, polls, trace, hw, lastAcc, thread>>

\* read_pod_reg / write_pod_reg: addr = hub << 16 | pod << 8 | reg
PodAddrSwapped(hub, pod, reg) == pod * 65536 + hub * 256 + reg

PodAddr(hub, pod, reg) == hub * 65536 + pod * 256 + reg

ReadPodReg(t, hub, pod, reg, outcome) ==
    ExecCmd(t, CMD_RD_POD_REG, PodAddr(hub, pod, reg), 0, outcome)

WritePodReg(t, hub, pod, reg, value, outcome) ==
    ExecCmd(t, CMD_WR_POD_REG, PodAddr(hub, pod, reg), value, outcome)

\* the arguments the callers of SpecOps pass
HubPods == {<<0, 0>>, <<1, 2>>}
RleAddrs == {0, 1, 2, 3, 1048581}
TsBitsArgs == {0, 1, 4, 16, 30, 32, 33, 255}
CaptureCounts == {0, 1, 2, 3, 10000}

\* a call of read_rle_sample(hub, pod, addr, ts_bits)
CallReadRleSample(t) ==
    /\ pc[t] = "start"
    /\ \E hp \in HubPods, a \in RleAddrs, n \in TsBitsArgs :
        /\ args' = [args EXCEPT ![t] = [NoArgs EXCEPT !.op = "read_rle_sample"]]
        /\ loc' = [loc EXCEPT ![t] = [LocIdle EXCEPT !.hub = hp[1], !.pod = hp[2],
                                                      !.addr = a, !.tsb = n]]
    /\ pc' = [pc EXCEPT ![t] = "rle_wr0"]
    /\ UNCHANGED <<build, dm, mutex, polls, ret, trace, hw, lastAcc, thread, cmds, dev>>

\* read_rle_sample: self.write_pod_reg(hub, pod, POD_REG_RAM_PTR, addr);
\* the result is not looked at
RleWritePtr(t) ==
    /\ pc[t] = "rle_wr0"
    /\ \E o \in CmdOutcomes :
        WritePodReg(t, loc[t].hub, loc[t].pod, POD_REG_RAM_PTR, loc[t].addr, o)
    /\ pc' = [pc EXCEPT ![t] = "rle_rd0"]
    /\ UNCHANGED <<build, args, ret, loc>>

\* read_rle_sample returns result to its caller: to the caller of SpecOps,
\* or to the loop of get_capture_from_pod, which pushes a sample it gets
RleReturn(t, result, hi) ==
    IF args[t].op = "capture"
    THEN /\ loc' = [loc EXCEPT ![t].sample = result, ![t].hi = hi,
                        ![t].samples = IF IsSome(result) THEN Append(@, result[1]) ELSE @,
                        ![t].i = @ + 1]
         /\ pc' = [pc EXCEPT ![t] = "cap_loop"]
         /\ UNCHANGED ret
    ELSE /\ loc' = [loc EXCEPT ![t].sample = result, ![t].hi = hi]
         /\ ret' = [ret EXCEPT ![t] = result]
         /\ pc' = [pc EXCEPT ![t] = "ret"]

\* let data = self.read_pod_reg(hub, pod, POD_REG_RAM_DATA)?;
RleReadData(t) ==
    /\ pc[t] = "rle_rd0"
    /\ \E o \in CmdOutcomes :
        /\ ReadPodReg(t, loc[t].hub, loc[t].pod, POD_REG_RAM_DATA, o)
        /\ LET r == CmdResult(CMD_RD_POD_REG,
                              PodAddr(loc[t].hub, loc[t].pod, POD_REG_RAM_DATA), o) IN
            IF IsSome(r)
            THEN /\ loc' = [loc EXCEPT ![t].data = r[1]]
                 /\ pc' = [pc EXCEPT ![t] = "rle_wr1"]
                 /\ UNCHANGED ret
            ELSE RleReturn(t, None, 0)
    /\ UNCHANGED <<build, args>>

\* self.write_pod_reg(hub, pod, POD_REG_RAM_PTR, (1 << 20) | addr);
RleWritePtrHi(t) ==
    /\ pc[t] = "rle_wr1"
    /\ \E o \in CmdOutcomes :
        WritePodReg(t, loc[t].hub, loc[t].pod, POD_REG_RAM_PTR,
                    BitOr(Pow2(20), loc[t].addr), o)
    /\ pc' = [pc EXCEPT ![t] = "rle_rd1"]
    /\ UNCHANGED <<build, args, ret, loc>>

\* the decode of read_rle_sample:
\*   let ts_mask = (1u32 << ts_bits) - 1;
\*   let code = ((hi >> ts_bits) & 0x3) as u8;
\*   let timestamp = (hi & ts_mask) as u32;
TsMask(ts_bits) ==
    IF ShiftAmount(ts_bits) = 31 THEN 2147483647 ELSE Pow2(ShiftAmount(ts_bits)) - 1

DecodeCode(hi, ts_bits) == BitAnd(Shr(hi, ShiftAmount(ts_bits)), 3)

DecodeTimestamp(hi, ts_bits) == BitAnd(hi, TsMask(ts_bits))

RleSample(addr, hi, ts_bits, data) ==
    [address |-> addr, code |-> DecodeCode(hi, ts_bits),
     timestamp |-> DecodeTimestamp(hi, ts_bits), data |-> data]

\* let hi = self.read_pod_reg(hub, pod, POD_REG_RAM_DATA)?; and the decode
RleReadHi(t) ==
    /\ pc[t] = "rle_rd1"
    /\ \E o \in CmdOutcomes, b \in Builds :
        /\ ReadPodReg(t, loc[t].hub, loc[t].pod, POD_REG_RAM_DATA, o)
        /\ LET r == CmdResult(CMD_RD_POD_REG,
                              PodAddr(loc[t].hub, loc[t].pod, POD_REG_RAM_DATA), o) IN
            IF ~IsSome(r)
            THEN /\ RleReturn(t, None, 0)
                 /\ UNCHANGED build
            ELSE IF ShiftOverflows(loc[t].tsb)
            THEN /\ build' = b
                 /\ IF b = "debug"
                    THEN /\ pc' = [pc EXCEPT ![t] = "panic"]
                         /\ loc' = [loc EXCEPT ![t].hi = r[1]]
                         /\ UNCHANGED ret
                    ELSE RleReturn(t, Some(RleSample(loc[t].addr, r[1], loc[t].tsb,
                                                     loc[t].data)), r[1])
            ELSE /\ RleReturn(t, Some(RleSample(loc[t].addr, r[1], loc[t].tsb,
                                                loc[t].data)), r[1])
                 /\ UNCHANGED build
    /\ UNCHANGED args

\* a call of get_pod_config(hub, pod)
CallGetPodConfig(t) ==
    /\ pc[t] = "start"
    /\ \E hp \in HubPods :
        /\ args' = [args EXCEPT ![t] = [NoArgs EXCEPT !.op = "get_pod_config"]]
        /\ loc' = [loc EXCEPT ![t] = [LocIdle EXCEPT !.hub = hp[1], !.pod = hp[2]]]
    /\ pc' = [pc EXCEPT ![t] = "cfg_rd"]
    /\ UNCHANGED <<build, dm, mutex, polls, ret, trace, hw, lastAcc, thread, cmds, dev>>

\* a call of get_capture_from_pod(state, hub, pod, count)
CallCapture(t) ==
    /\ pc[t] = "start"
    /\ \E hp \in HubPods, n \in CaptureCounts :
        /\ args' = [args EXCEPT ![t] = [NoArgs EXCEPT !.op = "capture"]]
        /\ loc' = [loc EXCEPT ![t] = [LocIdle EXCEPT !.hub = hp[1], !.pod = hp[2],
                                                      !.count = n]]
    /\ pc' = [pc EXCEPT ![t] = "cap_status"]
    /\ UNCHANGED <<build, dm, mutex, polls, ret, trace, hw, lastAcc, thread, cmds, dev>>

UnwrapOr(o, d) == IF IsSome(o) THEN o[1] ELSE d

\* let status_val = state.exec_cmd(CMD_RD_STATUS, 0, 0).unwrap_or(0);
CaptureReadStatus(t) ==
    /\ pc[t] = "cap_status"
    /\ \E o \in CmdOutcomes :
        /\ ExecCmd(t, CMD_RD_STATUS, 0, 0, o)
        /\ loc' = [loc EXCEPT ![t].status_val = UnwrapOr(CmdResult(CMD_RD_STATUS, 0, o), 0)]
    /\ pc' = [pc EXCEPT ![t] = "cfg_rd"]
    /\ UNCHANGED <<build, args, ret>>

\* the fields get_pod_config takes from ram_cfg
DepthBits(ram_cfg) == BitAnd(ram_cfg, 255)
DataBitsLowByte(ram_cfg) == BitAnd(Shr(ram_cfg, 8), 255)
DataBits(ram_cfg) == BitAnd(Shr(ram_cfg, 8), 65535)
TsBits(ram_cfg) == BitAnd(Shr(ram_cfg, 24), 255)
\* let ram_depth = 1u32 << depth_bits;
RamDepth(depth_bits) == Pow2(ShiftAmount(depth_bits))

\* get_pod_config: the RAM_CFG read with unwrap_or(0), then the fields; the
\* tuple goes to the caller of SpecOps or to get_capture_from_pod
GetPodConfig(t) ==
    /\ pc[t] = "cfg_rd"
    /\ \E o \in CmdOutcomes, b \in Builds :
        /\ ReadPodReg(t, loc[t].hub, loc[t].pod, POD_REG_RAM_CFG, o)
        /\ LET r == CmdResult(CMD_RD_POD_REG,
                              PodAddr(loc[t].hub, loc[t].pod, POD_REG_RAM_CFG), o)
               ram_cfg == UnwrapOr(r, 0)
               depth_bits == DepthBits(ram_cfg)
               cfg == <<TsBits(ram_cfg), DataBits(ram_cfg), RamDepth(depth_bits)>>
           IN
            /\ build' = IF ShiftOverflows(depth_bits) THEN b ELSE build
            /\ IF ShiftOverflows(depth_bits) /\ b = "debug"
               THEN /\ pc' = [pc EXCEPT ![t] = "panic"]
                    /\ loc' = [loc EXCEPT ![t].cfg_read = r]
                    /\ UNCHANGED ret
               ELSE /\ loc' = [loc EXCEPT ![t].cfg_read = r, ![t].ts_bits = cfg[1],
                                   ![t].data_bits = cfg[2], ![t].ram_depth = cfg[3]]
                    /\ IF args[t].op = "capture"
                       THEN /\ pc' = [pc EXCEPT ![t] = "cap_count"]
                            /\ UNCHANGED ret
                       ELSE /\ pc' = [pc EXCEPT ![t] = "ret"]
                            /\ ret' = [ret EXCEPT ![t] = Some(cfg)]
    /\ UNCHANGED args

\* let sample_count = count.min(ram_depth).min(2048);
CaptureSampleCount(t) ==
    /\ pc[t] = "cap_count"
    /\ loc' = [loc EXCEPT ![t].sample_count = Min(Min(loc[t].count, loc[t].ram_depth),
                                                  CaptureMax),
                          ![t].i = 0]
    /\ pc' = [pc EXCEPT ![t] = "cap_loop"]
    /\ UNCHANGED <<build, dm, mutex, args, polls, ret, trace, hw, lastAcc, thread, cmds, dev>>

\* for i in 0..sample_count { state.read_rle_sample(hub, pod, i, ts_bits) }
CaptureNextSample(t) ==
    /\ pc[t] = "cap_loop"
    /\ loc[t].i < loc[t].sample_count
    /\ loc' = [loc EXCEPT ![t].addr = loc[t].i, ![t].tsb = loc[t].ts_bits,
                          ![t].data = 0, ![t].hi = 0, ![t].sample = None,
                          ![t].attempts = Append(@, loc[t].i)]
    /\ cmds' = [cmds EXCEPT ![t] = <<>>]
    /\ pc' = [pc EXCEPT ![t] = "rle_wr0"]
    /\ UNCHANGED <<build, dm, mutex, args, polls, ret, trace, hw, lastAcc, thread, dev>>

\* Json(CaptureData { hub, pod, ts_bits, data_bits, status, samples, sample_count })
CaptureReturn(t) ==
    /\ pc[t] = "cap_loop"
    /\ loc[t].i >= loc[t].sample_count
    /\ ret' = [ret EXCEPT ![t] = Some([hub |-> loc[t].hub, pod |-> loc[t].pod,
                                       ts_bits |-> loc[t].ts_bits,
                                       data_bits |-> loc[t].data_bits,
                                       status |-> loc[t].status_val,
                                       samples |-> loc[t].samples,
                                       sample_count |-> loc[t].sample_count])]
    /\ pc' = [pc EXCEPT ![t] = "ret"]
    /\ UNCHANGED <<build, dm, mutex, args, polls, trace, hw, lastAcc, thread, loc, cmds, dev>>

\* one caller; the pod is any of DevProfiles
InitOps ==
    /\ build = "any"
    /\ dm = DmIdle
    /\ MmioInit({1})
    /\ loc = [t \in Callers |-> LocIdle]
    /\ cmds = [t \in Callers |-> <<>>]
    /\ dev \in DevProfiles
    /\ thread = 0

NextOps ==
    \E t \in Callers :
        \/ CallReadRleSample(t)
        \/ RleWritePtr(t)
        \/ RleReadData(t)
        \/ RleWritePtrHi(t)
        \/ RleReadHi(t)
        \/ CallGetPodConfig(t)
        \/ GetPodConfig(t)
        \/ CallCapture(t)
        \/ CaptureReadStatus(t)
        \/ CaptureSampleCount(t)
        \/ CaptureNextSample(t)
        \/ CaptureReturn(t)
        \/ Return(t)

SpecOps == InitOps /\ [][NextOps]_vars

\* ------------------------------------------------------------------------
\* SpecSched: the handlers of the state commands on the runtime of main
\* (tokio, flavor = "current_thread"): one thread polls the handlers, and a
\* handler keeps the thread until it awaits or returns
\* ------------------------------------------------------------------------
\* Json(CommandResult { success, message })
CommandResult(success, message) == Some([success |-> success, message |-> <<message>>])

\* the handler of t returns result
Respond(t, result) ==
    /\ ret' = [ret EXCEPT ![t] = result]
    /\ pc' = [pc EXCEPT ![t] = "ret"]

\* the runtime polls the handler op of the pending request t
Poll(t, op, first) ==
    /\ pc[t] = "start"
    /\ thread = 0
    /\ thread' = t
    /\ args' = [args EXCEPT ![t] = [NoArgs EXCEPT !.op = op]]
    /\ pc' = [pc EXCEPT ![t] = first]
    /\ UNCHANGED <<build, dm, mutex, polls, ret, trace, hw, lastAcc, cmds, dev>>

\* exec_cmd(cmd, 0, wdata) by the handler of t, which is on the thread
StateCmd(t, cmd, wdata, outcome) ==
    /\ thread = t
    /\ ExecCmd(t, cmd, 0, wdata, outcome)
    /\ UNCHANGED <<build, args>>

Succeeded(cmd, outcome) == IsSome(CmdResult(cmd, 0, outcome))

\* post_reset
CallPostReset(t) == Poll(t, "reset", "reset_cmd") /\ UNCHANGED loc

PostReset(t) ==
    /\ pc[t] = "reset_cmd"
    /\ \E o \in CmdOutcomes :
        /\ StateCmd(t, CMD_RESET, 0, o)
        /\ Respond(t, CommandResult(Succeeded(CMD_RESET, o),
                        IF Succeeded(CMD_RESET, o) THEN "Reset complete" ELSE "Reset failed"))
    /\ UNCHANGED loc

\* post_arm
CallPostArm(t) == Poll(t, "arm", "arm_cmd") /\ UNCHANGED loc

PostArm(t) ==
    /\ pc[t] = "arm_cmd"
    /\ \E o \in CmdOutcomes :
        /\ StateCmd(t, CMD_ARM, 0, o)
        /\ Respond(t, CommandResult(Succeeded(CMD_ARM, o),
                        IF Succeeded(CMD_ARM, o) THEN "Armed" ELSE "Arm failed"))
    /\ UNCHANGED loc

\* std::thread::sleep(Duration::from_millis(ms)) returns to the handler of
\* t, which it has kept on the thread throughout
ThreadSleep(t, ms) ==
    /\ thread = t
    /\ loc' = [loc EXCEPT ![t].waits = Append(@, [after |-> Len(cmds[t]), ms |-> ms])]
    /\ UNCHANGED <<build, dm, mutex, args, polls, trace, hw, lastAcc, cmds, dev, thread>>

\* post_init: let success = state.exec_cmd(CMD_INIT, 0, 0).is_some();
CallPostInit(t) == Poll(t, "init", "init_cmd") /\ UNCHANGED loc

PostInit(t) ==
    /\ pc[t] = "init_cmd"
    /\ \E o \in CmdOutcomes :
        /\ StateCmd(t, CMD_INIT, 0, o)
        /\ loc' = [loc EXCEPT ![t].success = Succeeded(CMD_INIT, o)]
    /\ pc' = [pc EXCEPT ![t] = "init_wait"]
    /\ UNCHANGED ret

\* post_init: std::thread::sleep(100 ms); then the result
PostInitSleep(t) ==
    /\ pc[t] = "init_wait"
    /\ ThreadSleep(t, 100)
    /\ Respond(t, CommandResult(loc[t].success,
                    IF loc[t].success THEN "Init complete" ELSE "Init failed"))

\* the TriggerConfig bodies the requests of SpecSched carry
TriggerTypes == {"or_rising", "or_falling", "external", "level", ""}
TriggerBitsArgs == {0, 8}
PostTriggers == {64, 128}

\* post_configure_trigger(state, Json(config))
CallPostConfigureTrigger(t) ==
    /\ Poll(t, "configure_trigger", "trig_reset")
    /\ \E ty \in TriggerTypes, b \in TriggerBitsArgs, p \in PostTriggers :
        loc' = [loc EXCEPT ![t] = [LocIdle EXCEPT !.trigger_type = ty, !.trigger_bits = b,
                                                   !.post_trigger = p]]

\* one of the steps `if state.exec_cmd(cmd, 0, wdata).is_none() { return
\* Json(CommandResult { success: false, message }) }`
TrigStepGoesOn(t, cmd, wdata, message, next) ==
    \E o \in CmdOutcomes :
        /\ StateCmd(t, cmd, wdata, o)
        /\ pc' = [pc EXCEPT ![t] = next]
        /\ UNCHANGED ret

TrigStep(t, cmd, wdata, message, next) ==
    \E o \in CmdOutcomes :
        /\ StateCmd(t, cmd, wdata, o)
        /\ IF Succeeded(cmd, o)
           THEN /\ pc' = [pc EXCEPT ![t] = next]
                /\ UNCHANGED ret
           ELSE Respond(t, CommandResult(FALSE, message))

TrigReset(t) ==
    /\ pc[t] = "trig_reset"
    /\ TrigStep(t, CMD_RESET, 0, "Reset failed", "trig_type")
    /\ UNCHANGED loc

\* let trig_type = match config.trigger_type.as_str() { ... }
TrigTypeOf(trigger_type) ==
    IF trigger_type = "or_falling" THEN TRIG_OR_FALLING
    ELSE IF trigger_type = "external" THEN TRIG_EXT_RISING
    ELSE TRIG_OR_RISING

TrigWrType(t) ==
    /\ pc[t] = "trig_type"
    /\ TrigStep(t, CMD_WR_TRIG_TYPE, TrigTypeOf(loc[t].trigger_type),
                "Failed to set trigger type", "trig_field")
    /\ loc' = [loc EXCEPT ![t].trig_type = TrigTypeOf(loc[t].trigger_type)]

\* let trig_bits = if config.trigger_bits == 0 { 0x00000001 } else { config.trigger_bits };
TrigBitsOfUnchanged(trigger_bits) == trigger_bits

TrigBitsOf(trigger_bits) == IF trigger_bits = 0 THEN 1 ELSE trigger_bits

TrigWrField(t) ==
    /\ pc[t] = "trig_field"
    /\ TrigStep(t, CMD_WR_TRIG_DIG_FIELD, TrigBitsOf(loc[t].trigger_bits),
                "Failed to set trigger field", "trig_post")
    /\ loc' = [loc EXCEPT ![t].trig_bits = TrigBitsOf(loc[t].trigger_bits)]

TrigWrPost(t) ==
    /\ pc[t] = "trig_post"
    /\ TrigStep(t, CMD_WR_DIG_POST_TRIG, loc[t].post_trigger,
                "Failed to set post-trigger", "trig_pod_cfg")
    /\ UNCHANGED loc

\* let pod_trig_cfg = (trig_type & 0x07) | 0x20;
PodTrigCfg(trig_type) == BitOr(BitAnd(trig_type, 7), 32)

\* state.write_pod_reg(0, 0, POD_REG_TRIG_CFG, pod_trig_cfg); result unused
TrigPodCfgChecked(t) ==
    /\ pc[t] = "trig_pod_cfg"
    /\ thread = t
    /\ \E o \in CmdOutcomes :
        /\ WritePodReg(t, 0, 0, POD_REG_TRIG_CFG, PodTrigCfg(loc[t].trig_type), o)
        /\ IF o = "ok"
           THEN pc' = [pc EXCEPT ![t] = "trig_pod_en"] /\ UNCHANGED ret
           ELSE Respond(t, CommandResult(FALSE, "Pod write failed"))
    /\ UNCHANGED <<build, args, loc>>

TrigPodCfg(t) ==
    /\ pc[t] = "trig_pod_cfg"
    /\ thread = t
    /\ \E o \in CmdOutcomes :
        WritePodReg(t, 0, 0, POD_REG_TRIG_CFG, PodTrigCfg(loc[t].trig_type), o)
    /\ pc' = [pc EXCEPT ![t] = "trig_pod_en"]
    /\ UNCHANGED <<build, args, ret, loc>>

\* state.write_pod_reg(0, 0, POD_REG_TRIG_EN, trig_bits); result unused
TrigPodEn(t) ==
    /\ pc[t] = "trig_pod_en"
    /\ thread = t
    /\ \E o \in CmdOutcomes :
        WritePodReg(t, 0, 0, POD_REG_TRIG_EN, loc[t].trig_bits, o)
    /\ pc' = [pc EXCEPT ![t] = "trig_init"]
    /\ UNCHANGED <<build, args, ret, loc>>

TrigInit(t) ==
    /\ pc[t] = "trig_init"
    /\ TrigStep(t, CMD_INIT, 0, "Init failed", "trig_wait")
    /\ UNCHANGED loc

\* std::thread::sleep(200 ms)
TrigSleep(t) ==
    /\ pc[t] = "trig_wait"
    /\ ThreadSleep(t, 200)
    /\ pc' = [pc EXCEPT ![t] = "trig_arm"]
    /\ UNCHANGED ret

\* the ARM step, and the result of a configuration that went through
TrigArm(t) ==
    /\ pc[t] = "trig_arm"
    /\ \E o \in CmdOutcomes :
        /\ StateCmd(t, CMD_ARM, 0, o)
        /\ IF Succeeded(CMD_ARM, o)
           THEN Respond(t, Some([success |-> TRUE,
                                 message |-> <<"Configured", loc[t].trigger_type,
                                               loc[t].trig_bits, loc[t].post_trigger>>]))
           ELSE Respond(t, CommandResult(FALSE, "Arm failed"))
    /\ UNCHANGED loc

\* every caller has a request pending; the device accepts every command, or
\* may fail any
InitSched ==
    /\ build = "any"
    /\ dm = DmIdle
    /\ MmioInit(Callers)
    /\ loc = [t \in Callers |-> LocIdle]
    /\ cmds = [t \in Callers |-> <<>>]
    /\ dev \in {DevIdle, [DevIdle EXCEPT !.flaky = TRUE]}
    /\ thread = 0

NextSched ==
    \E t \in Callers :
        \/ CallPostReset(t)
        \/ PostReset(t)
        \/ CallPostArm(t)
        \/ PostArm(t)
        \/ CallPostInit(t)
        \/ PostInit(t)
        \/ PostInitSleep(t)
        \/ CallPostConfigureTrigger(t)
        \/ TrigReset(t)
        \/ TrigWrType(t)
        \/ TrigWrField(t)
        \/ TrigWrPost(t)
        \/ TrigPodCfg(t)
        \/ TrigPodEn(t)
        \/ TrigInit(t)
        \/ TrigSleep(t)
        \/ TrigArm(t)
        \/ Return(t)

SpecSched == InitSched /\ [][NextSched]_vars

\* ------------------------------------------------------------------------
\* SpecSignals: generate_norom_signals.  A name is the sequence of its
\* bytes; the names of the model are ASCII
\* ------------------------------------------------------------------------
\* str::trim: leading and trailing white space removed
IsSpace(c) == c \in {9, 10, 11, 12, 13, 32}

RECURSIVE TrimStart(_)
TrimStart(n) == IF n # <<>> /\ IsSpace(Head(n)) THEN TrimStart(Tail(n)) ELSE n

RECURSIVE TrimEnd(_)
TrimEnd(n) ==
    IF n # <<>> /\ IsSpace(n[Len(n)]) THEN TrimEnd(SubSeq(n, 1, Len(n) - 1)) ELSE n

Trim(n) == TrimEnd(TrimStart(n))

\* str::contains
Contains(n, pat) ==
    \E k \in 1..(Len(n) - Len(pat) + 1) : SubSeq(n, k, k + Len(pat) - 1) = pat

StrAdc == <<97, 100, 99>>
StrIq == <<105, 113>>

\* let view_mode = if view_dwords { "dwords" } else if ... else { "dwords" }
ViewMode(view_dwords, view_words, view_bytes, view_bits) ==
    IF view_dwords THEN "dwords"
    ELSE IF view_words THEN "words"
    ELSE IF view_bytes THEN "bytes"
    ELSE IF view_bits THEN "bits"
    ELSE "dwords"

\* the three fixed signals of the ADC I/Q pod
AdcIqSignals ==
    << [name |-> <<"adc_i[11:0]">>, bit_high |-> 11, bit_low |-> 0, signal_type |-> "analog"],
       [name |-> <<"adc_q[11:0]">>, bit_high |-> 23, bit_low |-> 12, signal_type |-> "analog"],
       [name |-> <<"adc_valid">>, bit_high |-> 24, bit_low |-> 24, signal_type |-> "bit"] >>

\* if pod_name_trimmed.contains("adc") && pod_name_trimmed.contains("iq") && data_bits >= 25
AdcIqOverrideAbove25(pod_name, data_bits) ==
    /\ Contains(Trim(pod_name), StrAdc)
    /\ Contains(Trim(pod_name), StrIq)
    /\ data_bits > 25

AdcIqOverride(pod_name, data_bits) ==
    /\ Contains(Trim(pod_name), StrAdc)
    /\ Contains(Trim(pod_name), StrIq)
    /\ data_bits >= 25

\* data_bits + (size - 1) in u16: the sum overflows above 65535, which
\* panics in a build with overflow checks and wraps in one without
WindowSumOverflows(data_bits, size) == data_bits + (size - 1) > 65535

\* let num = (data_bits + (size - 1)) / size;
NumWindows(data_bits, size) == ((data_bits + (size - 1)) % 65536) \div size

\* the arm of the match for windows of `size` bits: for i in 0..num { bit_low
\* = i * size; bit_high = min((i + 1) * size - 1, data_bits - 1); ... }.  The
\* products stay below 65536 for every num the sum allows
ViewWindowsNoMin(name, data_bits, size, tag, short, signal_type) ==
    [k \in 1..NumWindows(data_bits, size) |->
        [name |-> <<name, tag, k - 1, k * size - 1, (k - 1) * size>>,
         bit_high |-> k * size - 1, bit_low |-> (k - 1) * size,
         signal_type |-> signal_type]]

ViewWindows(name, data_bits, size, tag, short, signal_type) ==
    [k \in 1..NumWindows(data_bits, size) |->
        LET i == k - 1
            bit_low == i * size
            bit_high == Min((i + 1) * size - 1, data_bits - 1)
        IN [name |-> IF short /\ NumWindows(data_bits, size) = 1
                     THEN <<name, bit_high, 0>>
                     ELSE <<name, tag, i, bit_high, bit_low>>,
            bit_high |-> bit_high, bit_low |-> bit_low, signal_type |-> signal_type]]

\* "bits" => for i in 0..data_bits { ... bit_high: i, bit_low: i, "bit" }
ViewBits(name, data_bits) ==
    [k \in 1..data_bits |->
        [name |-> <<name, k - 1>>, bit_high |-> k - 1, bit_low |-> k - 1,
         signal_type |-> "bit"]]

\* the size of the windows of a view mode (0: none)
WindowSize(view_mode) ==
    CASE view_mode = "dwords" -> 32
      [] view_mode = "words" -> 16
      [] view_mode = "bytes" -> 8
      [] OTHER -> 0

\* generate_norom_signals(pod_name, data_bits, view_dwords, view_words,
\* view_bytes, view_bits, rle_disable) in build b: fault, or (view_mode,
\* signals)
GenerateNoromSignals(b, pod_name, data_bits, dwords, words, bytes, bits, rle_disable) ==
    LET pod_name_trimmed == Trim(pod_name)
        view_mode == ViewMode(dwords, words, bytes, bits)
        signal_type == IF rle_disable THEN "analog" ELSE "vector"
        size == WindowSize(view_mode)
    IN  IF AdcIqOverride(pod_name, data_bits)
        THEN [fault |-> FALSE, view_mode |-> "iq", signals |-> AdcIqSignals]
        ELSE IF view_mode = "bits"
        THEN [fault |-> FALSE, view_mode |-> view_mode,
              signals |-> ViewBits(pod_name_trimmed, data_bits)]
        ELSE IF WindowSumOverflows(data_bits, size) /\ b = "debug"
        THEN [fault |-> TRUE, view_mode |-> view_mode, signals |-> <<>>]
        ELSE [fault |-> FALSE, view_mode |-> view_mode,
              signals |-> ViewWindows(pod_name_trimmed, data_bits, size,
                              CASE view_mode = "dwords" -> "d"
                                [] view_mode = "words" -> "w"
                                [] OTHER -> "b",
                              view_mode # "bytes",
                              IF view_mode = "bytes" THEN "vector" ELSE signal_type)]

\* the arguments of the calls of SpecSignals: "pod0", "adc_iq" padded to 12
\* bytes, " iq adc", "adc", "ADC_IQ"
PodNames ==
    {<<112, 111, 100, 48>>,
     <<97, 100, 99, 95, 105, 113, 32, 32, 32, 32, 32, 32>>,
     <<32, 105, 113, 32, 97, 100, 99>>,
     <<97, 100, 99>>,
     <<65, 68, 67, 95, 73, 81>>}
DataBitsArgs == {0, 1, 8, 16, 24, 25, 33, 64, 65, 65504, 65505, 65535}

\* one call of generate_norom_signals, by the first caller
InitSignals ==
    /\ build = "any"
    /\ dm = DmIdle
    /\ MmioInit({})
    /\ cmds = [t \in Callers |-> <<>>]
    /\ dev = DevIdle
    /\ thread = 0
    /\ \E n \in PodNames, d \in DataBitsArgs, f \in [1..5 -> BOOLEAN] :
        loc = [t \in Callers |->
                IF t = 1
                THEN [LocIdle EXCEPT !.pod_name = n, !.data_bits = d, !.view_dwords = f[1],
                                     !.view_words = f[2], !.view_bytes = f[3],
                                     !.view_bits = f[4], !.rle_disable = f[5]]
                ELSE LocIdle]

\* the call returns, or panics
CallGenerateNoromSignals(t) ==
    /\ pc[t] = "done"
    /\ args[t].op = "none"
    /\ loc[t] # LocIdle
    /\ \E b \in Builds :
        LET r == GenerateNoromSignals(b, loc[t].pod_name, loc[t].data_bits,
                    loc[t].view_dwords, loc[t].view_words, loc[t].view_bytes,
                    loc[t].view_bits, loc[t].rle_disable)
            decides == ~AdcIqOverride(loc[t].pod_name, loc[t].data_bits)
        IN  /\ build' = IF decides /\ r.view_mode # "bits"
                            /\ WindowSumOverflows(loc[t].data_bits, WindowSize(r.view_mode))
                        THEN b ELSE build
            /\ IF r.fault
               THEN /\ pc' = [pc EXCEPT ![t] = "panic"]
                    /\ UNCHANGED ret
               ELSE /\ pc' = [pc EXCEPT ![t] = "ret"]
                    /\ ret' = [ret EXCEPT ![t] = Some(<<r.view_mode, r.signals>>)]
    /\ args' = [args EXCEPT ![t] = [NoArgs EXCEPT !.op = "generate_norom_signals"]]
    /\ UNCHANGED <<dm, mutex, polls, trace, hw, lastAcc, loc, cmds, dev, thread>>

NextSignals == \E t \in Callers : CallGenerateNoromSignals(t)

SpecSignals == InitSignals /\ [][NextSignals]_vars

\* ------------------------------------------------------------------------
\* SpecInfo: get_info, one command per step
\* ------------------------------------------------------------------------
\* let id = (hw_info >> 16) & 0xFFFF; hub_count, revision
HwId(hw_info) == BitAnd(Shr(hw_info, 16), 65535)
HubCount(hw_info) == BitAnd(Shr(hw_info, 8), 255)
Revision(hw_info) == BitAnd(hw_info, 255)

\* let connected = id == 0x5303;
ConnectedAlways(id) == TRUE

Connected(id) == id = 21251

\* char::from_u32: the character of a code point, None for a surrogate or a
\* value above 0x10FFFF
CharFromU32(v) == IF v < 55296 \/ (v >= 57344 /\ v <= 1114111) THEN Some(v) ELSE None

\* the two characters of hw_id: char::from_u32(byte).unwrap_or('?')
HwIdChars(id) ==
    <<UnwrapOr(CharFromU32(BitAnd(Shr(id, 8), 255)), 63),
      UnwrapOr(CharFromU32(BitAnd(id, 255)), 63)>>

\* name.push(((data >> 24) & 0xFF) as u8); ... name.push((data & 0xFF) as u8);
NameBytes(data) ==
    <<BitAnd(Shr(data, 24), 255), BitAnd(Shr(data, 16), 255),
      BitAnd(Shr(data, 8), 255), BitAnd(data, 255)>>

\* String::from_utf8_lossy: ASCII bytes are kept; of the other bytes the
\* model has only the ones that begin no UTF-8 sequence in the names of
\* InfoDevices, and each of those becomes U+FFFD
Utf8Lossy(bytes) == [k \in 1..Len(bytes) |-> IF bytes[k] < 128 THEN bytes[k] ELSE 65533]

\* String::from_utf8_lossy(&name).trim().to_string()
NameOf(bytes) == Trim(Utf8Lossy(bytes))

HubNameCmds == <<CMD_RD_HUB_NAME_0_3, CMD_RD_HUB_NAME_4_7, CMD_RD_HUB_NAME_8_11>>
PodNameRegs == <<POD_REG_NAME_0_3, POD_REG_NAME_4_7, POD_REG_NAME_8_11>>

\* the commands of caller t that failed so far
Faults(t) == Cardinality({k \in 1..Len(cmds[t]) : cmds[t][k].res = None})

\* exec_cmd(cmd, addr, 0) of get_info: at most MaxFaults commands of a call
\* fail
InfoCmd(t, cmd, addr, outcome) ==
    /\ outcome # "ok" => Faults(t) < MaxFaults
    /\ ExecCmd(t, cmd, addr, 0, outcome)

\* HW_INFO and CAP_STATUS of the device
DevHwInfo == IF dev.info # 0 THEN InfoDevices[dev.info].hw_info ELSE 0

\* hubs.push(HubInfo { index: hub_idx, name, freq_mhz, pod_count, pods });
\* and the next turn of the loop over the hubs
PushHub(i) ==
    [i EXCEPT !.hubs = Append(@, [index |-> i.hub_idx, name |-> i.name,
                                  freq_mhz |-> i.freq_mhz, pod_count |-> i.pod_count,
                                  pods |-> i.pods]),
              !.hub_idx = @ + 1, !.pod_idx = 0, !.pods = <<>>]

\* where get_info goes on after the hub: for hub_idx in 0..hub_count
AfterHub(i) ==
    IF i.hub_idx + 1 < HubCount(i.hw_info) THEN "ginfo_hub_name" ELSE "ginfo_ret"

\* let hw_info = mem.read32(REG_HW_INFO).unwrap_or(0); drop(mem); the offset
\* is inside the window, so the read returns the register
GetInfoHwInfo(t) ==
    /\ pc[t] = "start"
    /\ CanLock(t)
    /\ args' = [args EXCEPT ![t] = [NoArgs EXCEPT !.op = "get_info"]]
    /\ loc' = [loc EXCEPT ![t] = [LocIdle EXCEPT !.info.hw_info = DevHwInfo]]
    /\ pc' = [pc EXCEPT ![t] = "ginfo_cap"]
    /\ UNCHANGED <<build, dm, mutex, polls, ret, trace, hw, lastAcc, thread, cmds, dev>>

\* let cap_status = mem.read32(REG_CAP_STATUS).unwrap_or(0); drop(mem);
\* if connected { for hub_idx in 0..hub_count {
GetInfoCapStatus(t) ==
    /\ pc[t] = "ginfo_cap"
    /\ CanLock(t)
    /\ loc' = [loc EXCEPT ![t].info.cap_status = CapStatusWord]
    /\ pc' = [pc EXCEPT ![t] =
                IF Connected(HwId(loc[t].info.hw_info)) /\ HubCount(loc[t].info.hw_info) > 0
                THEN "ginfo_hub_name" ELSE "ginfo_ret"]
    /\ UNCHANGED <<build, dm, mutex, polls, ret, trace, hw, lastAcc, thread, cmds, dev,
                   args>>

\* one turn of the loop of a name read whose command returned r: the four
\* bytes are pushed if it succeeded
NameChunk(i, r) ==
    [i EXCEPT !.bytes = IF IsSome(r) THEN @ \o NameBytes(r[1]) ELSE @,
              !.chunk = (@ + 1) % 3]

\* read_hub_name(hub_idx): one of its three commands
GetInfoHubName(t) ==
    /\ pc[t] = "ginfo_hub_name"
    /\ \E o \in CmdOutcomes :
        LET i == loc[t].info
            cmd == HubNameCmds[i.chunk + 1]
            addr == i.hub_idx * 65536
            n == NameChunk(i, CmdResult(cmd, addr, o))
        IN  /\ InfoCmd(t, cmd, addr, o)
            /\ IF i.chunk < 2
               THEN /\ loc' = [loc EXCEPT ![t].info = n]
                    /\ UNCHANGED pc
               ELSE /\ loc' = [loc EXCEPT ![t].info =
                                [n EXCEPT !.name = NameOf(n.bytes), !.bytes = <<>>]]
                    /\ pc' = [pc EXCEPT ![t] = "ginfo_hub_freq"]
    /\ UNCHANGED <<build, args, ret>>

\* let freq = state.exec_cmd(CMD_RD_HUB_FREQ, addr, 0).unwrap_or(0);
\* let freq_mhz = (freq >> 20) & 0xFFF;
GetInfoHubFreq(t) ==
    /\ pc[t] = "ginfo_hub_freq"
    /\ \E o \in CmdOutcomes :
        LET addr == loc[t].info.hub_idx * 65536
            freq == UnwrapOr(CmdResult(CMD_RD_HUB_FREQ, addr, o), 0)
        IN  /\ InfoCmd(t, CMD_RD_HUB_FREQ, addr, o)
            /\ loc' = [loc EXCEPT ![t].info.freq_mhz = BitAnd(Shr(freq, 20), 4095)]
    /\ pc' = [pc EXCEPT ![t] = "ginfo_pod_count"]
    /\ UNCHANGED <<build, args, ret>>

\* .map(|v| (v & 0xFF) as u8).unwrap_or(0)
PodCountOf(r) == IF IsSome(r) THEN BitAnd(r[1], 255) ELSE 0

\* let pod_count = state.exec_cmd(CMD_RD_POD_COUNT, addr, 0)...; and the loop
\* over the pods, which a hub without pods leaves at once
GetInfoPodCount(t) ==
    /\ pc[t] = "ginfo_pod_count"
    /\ \E o \in CmdOutcomes :
        LET addr == loc[t].info.hub_idx * 65536
            pod_count == PodCountOf(CmdResult(CMD_RD_POD_COUNT, addr, o))
            i == [loc[t].info EXCEPT !.pod_count = pod_count, !.pods = <<>>, !.pod_idx = 0]
        IN  /\ InfoCmd(t, CMD_RD_POD_COUNT, addr, o)
            /\ IF pod_count > 0
               THEN /\ loc' = [loc EXCEPT ![t].info = i]
                    /\ pc' = [pc EXCEPT ![t] = "ginfo_pod_name"]
               ELSE /\ loc' = [loc EXCEPT ![t].info = PushHub(i)]
                    /\ pc' = [pc EXCEPT ![t] = AfterHub(i)]
    /\ UNCHANGED <<build, args, ret>>

\* read_pod_name(hub_idx, pod_idx): one of its three commands
GetInfoPodName(t) ==
    /\ pc[t] = "ginfo_pod_name"
    /\ \E o \in CmdOutcomes :
        LET i == loc[t].info
            addr == PodAddr(i.hub_idx, i.pod_idx, PodNameRegs[i.chunk + 1])
            n == NameChunk(i, CmdResult(CMD_RD_POD_REG, addr, o))
        IN  /\ InfoCmd(t, CMD_RD_POD_REG, addr, o)
            /\ IF i.chunk < 2
               THEN /\ loc' = [loc EXCEPT ![t].info = n]
                    /\ UNCHANGED pc
               ELSE /\ loc' = [loc EXCEPT ![t].info =
                                [n EXCEPT !.pod_name = NameOf(n.bytes), !.bytes = <<>>]]
                    /\ pc' = [pc EXCEPT ![t] = "ginfo_pod_hw_cfg"]
    /\ UNCHANGED <<build, args, ret>>

\* let hw_cfg = state.read_pod_reg(hub_idx, pod_idx, POD_REG_HW_CFG).unwrap_or(0);
GetInfoPodHwCfg(t) ==
    /\ pc[t] = "ginfo_pod_hw_cfg"
    /\ \E o \in CmdOutcomes :
        LET addr == PodAddr(loc[t].info.hub_idx, loc[t].info.pod_idx, POD_REG_HW_CFG)
        IN  /\ InfoCmd(t, CMD_RD_POD_REG, addr, o)
            /\ loc' = [loc EXCEPT ![t].info.hw_cfg =
                        UnwrapOr(CmdResult(CMD_RD_POD_REG, addr, o), 0)]
    /\ pc' = [pc EXCEPT ![t] = "ginfo_pod_ram_cfg"]
    /\ UNCHANGED <<build, args, ret>>

\* let ram_cfg = state.read_pod_reg(hub_idx, pod_idx, POD_REG_RAM_CFG).unwrap_or(0);
\* ... let ram_depth = 1u32 << depth_bits;
GetInfoPodRamCfg(t) ==
    /\ pc[t] = "ginfo_pod_ram_cfg"
    /\ \E o \in CmdOutcomes, b \in Builds :
        LET addr == PodAddr(loc[t].info.hub_idx, loc[t].info.pod_idx, POD_REG_RAM_CFG)
            ram_cfg == UnwrapOr(CmdResult(CMD_RD_POD_REG, addr, o), 0)
            depth_bits == DepthBits(ram_cfg)
        IN  /\ InfoCmd(t, CMD_RD_POD_REG, addr, o)
            /\ build' = IF ShiftOverflows(depth_bits) THEN b ELSE build
            /\ IF ShiftOverflows(depth_bits) /\ b = "debug"
               THEN /\ pc' = [pc EXCEPT ![t] = "panic"]
                    /\ loc' = [loc EXCEPT ![t].info.ram_cfg = ram_cfg]
               ELSE /\ pc' = [pc EXCEPT ![t] = "ginfo_pod_trig"]
                    /\ loc' = [loc EXCEPT ![t].info.ram_cfg = ram_cfg,
                                          ![t].info.ram_depth = RamDepth(depth_bits)]
    /\ UNCHANGED <<args, ret>>

\* the flags of HW_CFG
HwRev(hw_cfg) == BitAnd(Shr(hw_cfg, 24), 255)
NoromViewDwords(hw_cfg) == BitAnd(hw_cfg, 2048) # 0
NoromViewWords(hw_cfg) == BitAnd(hw_cfg, 1024) # 0
NoromViewBytes(hw_cfg) == BitAnd(hw_cfg, 512) # 0
NoromViewBits(hw_cfg) == BitAnd(hw_cfg, 256) # 0
RleDisable(hw_cfg) == BitAnd(hw_cfg, 4) # 0
ViewRomEn(hw_cfg) == BitAnd(hw_cfg, 2) # 0

\* let (view_mode, signals) = if view_rom_en { ("custom", []) } else {
\* generate_norom_signals(...) };
PodView(b, i) ==
    IF ViewRomEn(i.hw_cfg)
    THEN [fault |-> FALSE, view_mode |-> "custom", signals |-> <<>>]
    ELSE GenerateNoromSignals(b, i.pod_name, DataBits(i.ram_cfg),
            NoromViewDwords(i.hw_cfg), NoromViewWords(i.hw_cfg),
            NoromViewBytes(i.hw_cfg), NoromViewBits(i.hw_cfg), RleDisable(i.hw_cfg))

\* whether the view of the pod depends on the build
PodViewOverflows(i) ==
    /\ ~ViewRomEn(i.hw_cfg)
    /\ ~AdcIqOverride(i.pod_name, DataBits(i.ram_cfg))
    /\ PodView("release", i).view_mode # "bits"
    /\ WindowSumOverflows(DataBits(i.ram_cfg), WindowSize(PodView("release", i).view_mode))

\* pods.push(PodInfo { index: pod_idx, name: pod_name, hw_rev, ram_depth,
\* data_bits, ts_bits, triggerable, rle_disable, view_rom_en, view_mode,
\* signals }); and the next turn of the loop over the pods
PushPod(i, triggerable, view) ==
    [i EXCEPT !.pods = Append(@, [index |-> i.pod_idx, name |-> i.pod_name,
                                  hw_rev |-> HwRev(i.hw_cfg), ram_depth |-> i.ram_depth,
                                  data_bits |-> DataBits(i.ram_cfg),
                                  ts_bits |-> TsBits(i.ram_cfg),
                                  triggerable |-> triggerable,
                                  rle_disable |-> RleDisable(i.hw_cfg),
                                  view_rom_en |-> ViewRomEn(i.hw_cfg),
                                  view_mode |-> view.view_mode,
                                  signals |-> view.signals]),
              !.pod_idx = @ + 1]

\* let triggerable = state.read_pod_reg(hub_idx, pod_idx,
\* POD_REG_TRIGGERABLE).unwrap_or(0); the signals; the pod is pushed, and
\* after the last pod the hub
GetInfoPodTriggerable(t) ==
    /\ pc[t] = "ginfo_pod_trig"
    /\ \E o \in CmdOutcomes, b \in Builds :
        LET i == loc[t].info
            addr == PodAddr(i.hub_idx, i.pod_idx, POD_REG_TRIGGERABLE)
            triggerable == UnwrapOr(CmdResult(CMD_RD_POD_REG, addr, o), 0)
            view == PodView(b, i)
            n == PushPod(i, triggerable, view)
        IN  /\ InfoCmd(t, CMD_RD_POD_REG, addr, o)
            /\ build' = IF PodViewOverflows(i) THEN b ELSE build
            /\ IF view.fault
               THEN /\ pc' = [pc EXCEPT ![t] = "panic"]
                    /\ UNCHANGED loc
               ELSE IF n.pod_idx < n.pod_count
               THEN /\ pc' = [pc EXCEPT ![t] = "ginfo_pod_name"]
                    /\ loc' = [loc EXCEPT ![t].info = n]
               ELSE /\ pc' = [pc EXCEPT ![t] = AfterHub(n)]
                    /\ loc' = [loc EXCEPT ![t].info = PushHub(n)]
    /\ UNCHANGED <<args, ret>>

\* Json(IlaInfo { connected, hw_id, revision, hub_count, is_armed, is_awake,
\* base_addr, hubs }); base_addr is the constant of the state and is left out
GetInfoReturn(t) ==
    /\ pc[t] = "ginfo_ret"
    /\ LET i == loc[t].info IN
        ret' = [ret EXCEPT ![t] =
                 Some([connected |-> Connected(HwId(i.hw_info)),
                       hw_id |-> HwIdChars(HwId(i.hw_info)),
                       revision |-> Revision(i.hw_info),
                       hub_count |-> HubCount(i.hw_info),
                       is_armed |-> BitAnd(i.cap_status, 1) # 0,
                       is_awake |-> BitAnd(i.cap_status, 2) # 0,
                       hubs |-> i.hubs])]
    /\ pc' = [pc EXCEPT ![t] = "ret"]
    /\ UNCHANGED <<build, dm, mutex, polls, trace, hw, lastAcc, thread, cmds, dev, args, loc>>

\* one caller; the device is any of InfoDevices
InitInfo ==
    /\ build = "any"
    /\ dm = DmIdle
    /\ MmioInit({1})
    /\ loc = [t \in Callers |-> LocIdle]
    /\ cmds = [t \in Callers |-> <<>>]
    /\ thread = 0
    /\ \E d \in 1..Len(InfoDevices) :
        dev = [DevIdle EXCEPT !.info = d, !.flaky = InfoDevices[d].flaky]

NextInfo ==
    \E t \in Callers :
        \/ GetInfoHwInfo(t)
        \/ GetInfoCapStatus(t)
        \/ GetInfoHubName(t)
        \/ GetInfoHubFreq(t)
        \/ GetInfoPodCount(t)
        \/ GetInfoPodName(t)
        \/ GetInfoPodHwCfg(t)
        \/ GetInfoPodRamCfg(t)
        \/ GetInfoPodTriggerable(t)
        \/ GetInfoReturn(t)

SpecInfo == InitInfo /\ [][NextInfo]_vars

\* ------------------------------------------------------------------------
\* SpecConc: callers of the driver on threads of their own (the state is
\* shared through an Arc), each in a capture, in get_info, in
\* get_capture_status or in get_register, one command per step
\* ------------------------------------------------------------------------
\* Json(CaptureStatus { armed, pre_trigger, triggered, acquired, init_in_progress })
CaptureStatus(status) ==
    [armed |-> BitAnd(status, 1) # 0, pre_trigger |-> BitAnd(status, 2) # 0,
     triggered |-> BitAnd(status, 4) # 0, acquired |-> BitAnd(status, 8) # 0,
     init_in_progress |-> BitAnd(status, 16) # 0]

\* get_capture_status: let status = state.exec_cmd(CMD_RD_STATUS, 0, 0).unwrap_or(0);
GetCaptureStatusArms(t) ==
    /\ pc[t] = "start"
    /\ \E o \in CmdOutcomes :
        /\ ExecCmd(t, CMD_ARM, 0, 0, o)
        /\ ret' = [ret EXCEPT ![t] = Some(CaptureStatus(UnwrapOr(CmdResult(CMD_ARM, 0, o), 0)))]
    /\ args' = [args EXCEPT ![t] = [NoArgs EXCEPT !.op = "status"]]
    /\ pc' = [pc EXCEPT ![t] = "ret"]
    /\ UNCHANGED <<build, loc>>

GetCaptureStatus(t) ==
    /\ pc[t] = "start"
    /\ \E o \in CmdOutcomes :
        /\ ExecCmd(t, CMD_RD_STATUS, 0, 0, o)
        /\ ret' = [ret EXCEPT ![t] =
                     Some(CaptureStatus(UnwrapOr(CmdResult(CMD_RD_STATUS, 0, o), 0)))]
    /\ args' = [args EXCEPT ![t] = [NoArgs EXCEPT !.op = "status"]]
    /\ pc' = [pc EXCEPT ![t] = "ret"]
    /\ UNCHANGED <<build, loc>>

\* get_register as one step: no command is issued; the value is the one
\* read32 returns (see GetRegisterRead), and a misaligned read may abort
GetRegister(t) ==
    /\ pc[t] = "start"
    /\ \E off \in RegOffsets :
        LET reads == off < ILA_SIZE /\ WindowCheck(off) = "access" IN
        /\ off < ILA_SIZE => CanLock(t)
        /\ args' = [args EXCEPT ![t] = [NoArgs EXCEPT !.op = "get_register", !.offset = off]]
        /\ \/ /\ \E v \in (IF off = REG_HW_INFO THEN {DevHwInfo} ELSE RegValues) :
                  ret' = [ret EXCEPT ![t] = IF reads THEN Some(v) ELSE None]
              /\ pc' = [pc EXCEPT ![t] = "ret"]
           \/ /\ reads /\ Misaligned(off)
              /\ pc' = [u \in Callers |-> "abort"]
              /\ UNCHANGED ret
    /\ UNCHANGED <<build, dm, mutex, polls, trace, hw, lastAcc, thread, loc, cmds, dev>>

InitConc ==
    /\ build = "any"
    /\ dm = DmIdle
    /\ MmioInit({1, 2})
    /\ loc = [t \in Callers |-> LocIdle]
    /\ cmds = [t \in Callers |-> <<>>]
    /\ thread = 0
    /\ dev = [DevIdle EXCEPT !.info = Len(InfoDevices)]

NextConc ==
    \E t \in Callers :
        \/ CallCapture(t)
        \/ CaptureReadStatus(t)
        \/ GetPodConfig(t)
        \/ CaptureSampleCount(t)
        \/ CaptureNextSample(t)
        \/ RleWritePtr(t)
        \/ RleReadData(t)
        \/ RleWritePtrHi(t)
        \/ RleReadHi(t)
        \/ CaptureReturn(t)
        \/ GetInfoHwInfo(t)
        \/ GetInfoCapStatus(t)
        \/ GetInfoHubName(t)
        \/ GetInfoHubFreq(t)
        \/ GetInfoPodCount(t)
        \/ GetInfoPodName(t)
        \/ GetInfoPodHwCfg(t)
        \/ GetInfoPodRamCfg(t)
        \/ GetInfoPodTriggerable(t)
        \/ GetInfoReturn(t)
        \/ GetCaptureStatus(t)
        \/ GetRegister(t)
        \/ Return(t)

SpecConc == InitConc /\ [][NextConc]_vars

\* ------------------------------------------------------------------------
\* Properties of the command protocol (SpecCmd, SpecMmio)
\* ------------------------------------------------------------------------
\* positions of the STATUS reads and of the RDATA reads in an access log
StatusIdx(tr) == {i \in 1..Len(tr) : tr[i].k = "r" /\ tr[i].off = REG_STATUS}
RdataIdx(tr) == {i \in 1..Len(tr) : tr[i].k = "r" /\ tr[i].off = REG_RDATA}
SetMax(S) == CHOOSE m \in S : \A x \in S : x <= m
IsDone(status) == Bit(status, 1)
IsErr(status) == Bit(status, 2)
SawDone(tr) == \E i \in StatusIdx(tr) : IsDone(tr[i].val)
IsWrite(e, off, val) == e.k = "w" /\ e.off = off /\ e.val = val /\ e.n = 1

\* number of STATUS reads an access log holds
RECURSIVE StatusReadsFrom(_, _)
StatusReadsFrom(tr, i) ==
    IF i > Len(tr) THEN 0
    ELSE (IF i \in StatusIdx(tr) THEN tr[i].n ELSE 0) + StatusReadsFrom(tr, i + 1)
StatusReads(tr) == StatusReadsFrom(tr, 1)

Returned(t) == pc[t] = "ret" /\ args[t].op = "exec_cmd"

\* C1: an exec_cmd call that saw DONE made exactly these accesses, in this
\* order: write(CMD=cmd), write(ADDR=addr), write(WDATA=wdata),
\* write(CTRL=1), one or more read(STATUS), and then one read(RDATA) if and
\* only if the last STATUS read had DONE=1 and ERR=0; in that case it
\* returns the RDATA value read, otherwise it returns None.
C1_CommandFraming ==
    \A t \in Callers :
        (Returned(t) /\ SawDone(trace[t])) =>
            LET tr == trace[t]
                last == SetMax(StatusIdx(tr))
                good == IsDone(tr[last].val) /\ ~IsErr(tr[last].val)
            IN
            /\ IsWrite(tr[1], REG_CMD, args[t].cmd)
            /\ IsWrite(tr[2], REG_ADDR, args[t].addr)
            /\ IsWrite(tr[3], REG_WDATA, args[t].wdata)
            /\ IsWrite(tr[4], REG_CTRL, 1)
            /\ StatusIdx(tr) = 5..last
            /\ last >= 5
            /\ Len(tr) \in {last, last + 1}
            /\ (Len(tr) = last + 1) <=> good
            /\ good => /\ tr[Len(tr)].k = "r"
                       /\ tr[Len(tr)].off = REG_RDATA
                       /\ tr[Len(tr)].n = 1
                       /\ ret[t] = Some(tr[Len(tr)].val)
            /\ ~good => ret[t] = None

\* an exec_cmd call returned the RDATA it read after a busy poll
C1_Witness ==
    \E t \in Callers :
        /\ Returned(t)
        /\ polls[t] = 2
        /\ Len(trace[t]) = 7
        /\ ret[t] = Some(305419896)

\* what marks a caller as inside a command: its write(CMD) is made and its
\* last read is not
InCommand(t) == pc[t] \in {"wr_addr", "wr_wdata", "wr_ctrl", "poll", "rd_rdata"}

\* C2: while a caller is between the write(CMD) of its command and its
\* last read it holds the mutex and the latest access to the window is its
\* own: no access of another command, of get_info's raw reads or of
\* get_register falls in between.
C2_NoInterleaving ==
    \A t \in Callers : InCommand(t) => (mutex = t /\ lastAcc = t)

\* a caller polls STATUS while another one, having made the first raw read
\* of get_info, waits for the mutex to make the second
C2_Witness ==
    \E t, u \in Callers :
        /\ t # u
        /\ pc[t] = "poll" /\ polls[t] >= 1
        /\ pc[u] = "info_lock_cap"

\* C3: an exec_cmd call that never saw DONE returns None after exactly
\* 100,000 reads of STATUS and without a read of RDATA.
C3_TimeoutAfterPollLimit ==
    \A t \in Callers :
        (Returned(t) /\ ~SawDone(trace[t])) =>
            /\ ret[t] = None
            /\ StatusReads(trace[t]) = 100000
            /\ RdataIdx(trace[t]) = {}

\* an exec_cmd call returned on the exhausted poll loop
C3_Witness ==
    \E t \in Callers :
        /\ Returned(t)
        /\ ~SawDone(trace[t])
        /\ polls[t] = 100000

\* C4: a STATUS read showing DONE=1 and ERR=1 is the last access of its
\* exec_cmd call: the call returns None at that poll, with no further read
\* of STATUS and no read of RDATA.
C4_ErrorBitFails ==
    \A t \in Callers :
        args[t].op = "exec_cmd" =>
            \A i \in StatusIdx(trace[t]) :
                (IsDone(trace[t][i].val) /\ IsErr(trace[t][i].val)) =>
                    /\ i = Len(trace[t])
                    /\ trace[t][i].n = 1
                    /\ pc[t] = "ret"
                    /\ ret[t] = None

\* an exec_cmd call failed on DONE|ERR at its first poll
C4_Witness ==
    \E t \in Callers :
        /\ Returned(t)
        /\ polls[t] = 1
        /\ Len(trace[t]) = 5
        /\ trace[t][5].val = STATUS_DONE + STATUS_ERR
        /\ ret[t] = None

\* ------------------------------------------------------------------------
\* Properties of DevMem (SpecDevMem)
\* ------------------------------------------------------------------------
\* C5: for a window of any size, read32 and write32 with offset >= size-3
\* return None / false and make no access, and with offset+4 <= size make
\* the access at that offset.
C5_BoundsRejected ==
    dm.op # "none" =>
        /\ dm.offset + 3 >= dm.size =>
            (dm.outcome = "none" /\ dm.res = None /\ dm.ok = FALSE)
        /\ dm.offset + 4 <= dm.size =>
            (dm.outcome = "access" /\ dm.at = dm.offset)

\* ------------------------------------------------------------------------
\* Properties of the pod operations (SpecOps)
\* ------------------------------------------------------------------------
\* the latest call of read_rle_sample by t has ended: it returned (to the
\* caller of SpecOps or to the capture loop) or its decode faulted
RleEnded(t) ==
    \/ args[t].op = "read_rle_sample" /\ pc[t] \in {"ret", "panic"}
    \/ /\ args[t].op = "capture"
       /\ loc[t].attempts # <<>>
       /\ pc[t] \in {"cap_loop", "ret", "panic"}

AllSucceeded(t) == \A i \in 1..Len(cmds[t]) : IsSome(cmds[t][i].res)

IsCmd(c, cmd, addr) == c.cmd = cmd /\ c.addr = addr

\* C6: a call of read_rle_sample(hub, pod, addr, ts_bits) in which every
\* command succeeds issues exactly four commands, in order: WR_POD_REG of
\* RAM_PTR with addr, RD_POD_REG of RAM_DATA, WR_POD_REG of RAM_PTR with
\* (1 << 20) | addr, RD_POD_REG of RAM_DATA, each with ADDR = hub << 16 |
\* pod << 8 | reg; the data returned is the RDATA of the first read and the
\* high word is the RDATA of the second
C6_RleCommandSequence ==
    \A t \in Callers :
        RleEnded(t) /\ AllSucceeded(t) =>
            LET c == cmds[t]
                target == loc[t].hub * 65536 + loc[t].pod * 256
                page1 == IF Bit(loc[t].addr, 20) THEN loc[t].addr
                         ELSE loc[t].addr + 1048576
            IN  /\ Len(c) = 4
                /\ IsCmd(c[1], CMD_WR_POD_REG, target + 8) /\ c[1].wdata = loc[t].addr
                /\ IsCmd(c[2], CMD_RD_POD_REG, target + 9)
                /\ IsCmd(c[3], CMD_WR_POD_REG, target + 8) /\ c[3].wdata = page1
                /\ IsCmd(c[4], CMD_RD_POD_REG, target + 9)
                /\ loc[t].hi = c[4].res[1]
                /\ pc[t] # "panic" =>
                    /\ IsSome(loc[t].sample)
                    /\ loc[t].sample[1].data = c[2].res[1]
                    /\ loc[t].sample[1].address = loc[t].addr

\* a call for pod 2 of hub 1 and an address with bit 20 set has returned a
\* sample after four successful commands
C6_Witness ==
    \E t \in Callers :
        /\ RleEnded(t) /\ AllSucceeded(t)
        /\ Len(cmds[t]) = 4
        /\ loc[t].hub = 1 /\ loc[t].pod = 2 /\ loc[t].addr = 1048581
        /\ IsSome(loc[t].sample)

\* C7: read_rle_sample returns None whenever any of its four sub-steps
\* fails, a RAM_PTR write as much as a RAM_DATA read: no sample is returned
\* whose RAM pointer was not successfully set
C7_FailedSubStepYieldsNone ==
    \A t \in Callers :
        RleEnded(t) /\ ~AllSucceeded(t) => loc[t].sample = None

\* the low n bits of a high word below 2^31, and the two bits above them
LowBitsOf(hi, n) == IF n >= 31 THEN hi ELSE hi % Pow2(n)
CodeBitsOf(hi, n) == IF n >= 31 THEN 0 ELSE (hi \div Pow2(n)) % 4

\* C8: for every ts_bits in 0..255 and every high word, read_rle_sample
\* decodes without arithmetic fault: the timestamp is the low ts_bits bits
\* of hi (all of hi when ts_bits >= 32) and the code the two bits just above
\* them (0 when ts_bits >= 32)
C8_DecodeWithoutFault ==
    \A t \in Callers :
        RleEnded(t) /\ Len(cmds[t]) = 4 /\ IsSome(cmds[t][2].res) /\ IsSome(cmds[t][4].res) =>
            /\ pc[t] # "panic"
            /\ IsSome(loc[t].sample)
            /\ loc[t].sample[1].timestamp = LowBitsOf(cmds[t][4].res[1], loc[t].tsb)
            /\ loc[t].sample[1].code = CodeBitsOf(cmds[t][4].res[1], loc[t].tsb)

\* the positions of get_capture_from_pod after its call of get_pod_config
AfterPodConfig ==
    {"cap_count", "cap_loop", "rle_wr0", "rle_rd0", "rle_wr1", "rle_rd1", "ret"}

\* C9: when the RAM_CFG read fails, get_pod_config returns ts_bits,
\* data_bits and ram_depth all 0, and a capture on that pod has sample_count
\* 0 and reads no RAM sample
C9_FailedConfigIsAllZero ==
    \A t \in Callers :
        /\ args[t].op = "get_pod_config" /\ pc[t] = "ret" /\ loc[t].cfg_read = None =>
            ret[t] = Some(<<0, 0, 0>>)
        /\ args[t].op = "capture" /\ pc[t] \in (AfterPodConfig \ {"cap_count"})
                /\ loc[t].cfg_read = None =>
            loc[t].sample_count = 0 /\ loc[t].attempts = <<>>

\* min(count, 1 << depth_bits, 2048), for any depth_bits in 0..255
CaptureTarget(count, depth_bits) ==
    IF depth_bits >= 12 THEN Min(count, 2048) ELSE Min(Min(count, Pow2(depth_bits)), 2048)

\* C10: for every count and every pod configuration, capture reports
\* sample_count = min(count, ram_depth, 2048), attempts read_rle_sample
\* once for each address 0..sample_count-1 in ascending order and returns at
\* most sample_count samples
C10_CaptureSampleCount ==
    \A t \in Callers :
        args[t].op = "capture" /\ IsSome(loc[t].cfg_read) =>
            LET n == CaptureTarget(loc[t].count, loc[t].cfg_read[1] % 256) IN
                /\ pc[t] # "panic"
                /\ pc[t] \in (AfterPodConfig \ {"cap_count"}) => loc[t].sample_count = n
                /\ pc[t] = "ret" =>
                    /\ ret[t][1].sample_count = n
                    /\ loc[t].attempts = [k \in 1..n |-> k - 1]
                    /\ Len(ret[t][1].samples) <= n

\* the addresses of the samples capture has collected
SampleAddrs(t) == {loc[t].samples[k].address : k \in 1..Len(loc[t].samples)}

\* the addresses whose read_rle_sample call has returned None
Skipped(t) == (0..(loc[t].i - 1)) \ SampleAddrs(t)

\* C11: in capture an address whose read_rle_sample fails is skipped
\* without aborting: all later addresses are still attempted, the samples
\* returned are exactly the addresses whose read succeeded, in strictly
\* increasing order, and sample_count reports the target n
C11_FailedReadsSkipped ==
    \A t \in Callers :
        args[t].op = "capture" =>
            /\ \A k \in 1..Len(loc[t].samples) :
                /\ loc[t].samples[k].address \in 0..(loc[t].i - 1)
                /\ k > 1 => loc[t].samples[k - 1].address < loc[t].samples[k].address
            /\ pc[t] = "cap_loop" /\ loc[t].i > 0 =>
                (IsSome(loc[t].sample) <=> (loc[t].i - 1) \in SampleAddrs(t))
            /\ pc[t] \in {"ret", "panic"} /\ Skipped(t) # {} =>
                loc[t].attempts = [k \in 1..loc[t].sample_count |-> k - 1]
            /\ pc[t] = "ret" =>
                /\ ret[t][1].sample_count = loc[t].sample_count
                /\ ret[t][1].samples = loc[t].samples
                /\ Len(loc[t].attempts) = loc[t].sample_count

\* ------------------------------------------------------------------------
\* Properties of the state commands (SpecSched)
\* ------------------------------------------------------------------------
\* the commands of t so far, as <<CMD, ADDR, WDATA>>
Issued(t) == [k \in 1..Len(cmds[t]) |-> <<cmds[t][k].cmd, cmds[t][k].addr, cmds[t][k].wdata>>]

\* C12: when the device accepts every command, configure_trigger issues
\* exactly RESET, WR_TRIG_TYPE(code), WR_TRIG_DIG_FIELD(bits'),
\* WR_DIG_POST_TRIG(post_trigger), WR_POD_REG(hub 0, pod 0, TRIG_CFG,
\* (code & 7) | 0x20), WR_POD_REG(hub 0, pod 0, TRIG_EN, bits'), INIT, a
\* wait, ARM, in this order, and reports success; code is 3 for
\* "or_falling", 6 for "external" and 2 otherwise; bits' is trigger_bits
\* with 0 replaced by 1
C12_TriggerSequence ==
    \A t \in Callers :
        args[t].op = "configure_trigger" /\ pc[t] = "ret" /\ AllSucceeded(t) =>
            LET code == CASE loc[t].trigger_type = "or_falling" -> 3
                          [] loc[t].trigger_type = "external" -> 6
                          [] OTHER -> 2
                bits == IF loc[t].trigger_bits = 0 THEN 1 ELSE loc[t].trigger_bits
            IN  /\ Issued(t) = << <<2, 0, 0>>, <<35, 0, code>>, <<36, 0, bits>>,
                                  <<42, 0, loc[t].post_trigger>>,
                                  <<64, 3, (code % 8) + 32>>, <<64, 4, bits>>,
                                  <<3, 0, 0>>, <<1, 0, 0>> >>
                /\ loc[t].waits = << [after |-> 7, ms |-> 200] >>
                /\ ret[t][1].success

\* the configuration of the example (external, bits 8, post-trigger 128)
\* has gone through, and so has one with trigger_bits 0
C12_Witness ==
    \E t \in Callers :
        /\ args[t].op = "configure_trigger" /\ pc[t] = "ret" /\ AllSucceeded(t)
        /\ ret[t][1].success /\ Len(cmds[t]) = 8
        /\ loc[t].trigger_type = "external" /\ loc[t].trigger_bits = 8
        /\ loc[t].post_trigger = 128

\* a pod write of caller t failed
PodWriteFailed(t) ==
    \E k \in 1..Len(cmds[t]) : cmds[t][k].cmd = CMD_WR_POD_REG /\ cmds[t][k].res = None

\* C23: a configure_trigger in which one or both of the pod writes (TRIG_CFG
\* and TRIG_EN of hub 0, pod 0) failed did not abort there: both writes were
\* issued, INIT was issued after them, ARM after an INIT that succeeded, and
\* the result is success if INIT and ARM succeeded
C23_PodWritesBestEffort ==
    \A t \in Callers :
        args[t].op = "configure_trigger" /\ pc[t] = "ret" /\ PodWriteFailed(t) =>
            /\ Len(cmds[t]) >= 7
            /\ <<cmds[t][5].cmd, cmds[t][5].addr>> = <<CMD_WR_POD_REG, POD_REG_TRIG_CFG>>
            /\ <<cmds[t][6].cmd, cmds[t][6].addr>> = <<CMD_WR_POD_REG, POD_REG_TRIG_EN>>
            /\ cmds[t][7].cmd = CMD_INIT
            /\ IsSome(cmds[t][7].res) => Len(cmds[t]) = 8 /\ cmds[t][8].cmd = CMD_ARM
            /\ ret[t][1].success
                 <=> IsSome(cmds[t][7].res) /\ Len(cmds[t]) = 8 /\ IsSome(cmds[t][8].res)

\* a configure_trigger whose two pod writes both failed has reported success
C23_Witness ==
    \E t \in Callers :
        /\ args[t].op = "configure_trigger" /\ pc[t] = "ret"
        /\ Len(cmds[t]) = 8
        /\ cmds[t][5].res = None /\ cmds[t][6].res = None
        /\ ret[t][1].success

\* the steps of configure_trigger whose failure aborts, with their messages
AbortMessage(cmd) ==
    CASE cmd = CMD_RESET -> "Reset failed"
      [] cmd = CMD_WR_TRIG_TYPE -> "Failed to set trigger type"
      [] cmd = CMD_WR_TRIG_DIG_FIELD -> "Failed to set trigger field"
      [] cmd = CMD_WR_DIG_POST_TRIG -> "Failed to set post-trigger"
      [] cmd = CMD_INIT -> "Init failed"
      [] cmd = CMD_ARM -> "Arm failed"

\* C13: in configure_trigger the first failing step among RESET,
\* WR_TRIG_TYPE, WR_TRIG_DIG_FIELD, WR_DIG_POST_TRIG, INIT and ARM aborts:
\* no later command is issued and the result is success = false with the
\* message of that step
C13_FirstFailureAborts ==
    \A t \in Callers :
        args[t].op = "configure_trigger" =>
            \A k \in 1..Len(cmds[t]) :
                cmds[t][k].cmd # CMD_WR_POD_REG /\ ~IsSome(cmds[t][k].res) =>
                    /\ k = Len(cmds[t])
                    /\ pc[t] = "ret"
                    /\ ~ret[t][1].success
                    /\ ret[t][1].message = <<AbortMessage(cmds[t][k].cmd)>>

\* INIT has failed after six commands that went through
C13_Witness ==
    \E t \in Callers :
        /\ args[t].op = "configure_trigger" /\ pc[t] = "ret"
        /\ Len(cmds[t]) = 7
        /\ cmds[t][7].cmd = CMD_INIT /\ ~IsSome(cmds[t][7].res)
        /\ ret[t][1].message = <<"Init failed">>

\* C14: init() makes its 100 ms wait only after an INIT command that
\* succeeded; when INIT fails it returns its failure without waiting
C14_InitWaitsOnlyOnSuccess ==
    \A t \in Callers :
        args[t].op = "init" /\ loc[t].waits # <<>> =>
            Len(cmds[t]) = 1 /\ IsSome(cmds[t][1].res)

\* the handler of t is inside one of the fixed waits after INIT
InWait(t) == pc[t] \in {"init_wait", "trig_wait"}

\* the runtime can poll the handler of the pending request u
CanRun(u) ==
    ENABLED (CallPostReset(u) \/ CallPostArm(u) \/ CallPostInit(u)
                \/ CallPostConfigureTrigger(u))

\* C15: the waits after INIT are cooperative: while one request is inside
\* such a wait, the handler of another pending request can run
C15_WaitsAreCooperative ==
    \A t, u \in Callers :
        InWait(t) /\ u # t /\ pc[u] = "start" => CanRun(u)

\* ------------------------------------------------------------------------
\* Properties of get_register (SpecCmd)
\* ------------------------------------------------------------------------
\* C16: read_register(offset) returns null exactly when offset is outside
\* [0, 0x100): for every offset inside it returns the 32-bit value read from
\* the window at that offset, for every offset >= 0x100 it returns null
\* without accessing the window
C16_NullExactlyOutsideWindow ==
    \A t \in Callers :
        args[t].op = "get_register" /\ pc[t] = "ret" =>
            IF args[t].offset < 256
            THEN /\ IsSome(ret[t])
                 /\ trace[t] = << [k |-> "r", off |-> args[t].offset, val |-> ret[t][1],
                                   n |-> 1] >>
            ELSE /\ ret[t] = None
                 /\ trace[t] = <<>>

\* ------------------------------------------------------------------------
\* Properties of get_info (SpecInfo)
\* ------------------------------------------------------------------------
\* caller t is back from get_info
InfoReturned(t) == args[t].op = "get_info" /\ pc[t] = "ret"

\* what the command cmd with ADDR addr returned to caller t
ResultOf(t, cmd, addr) ==
    cmds[t][CHOOSE k \in 1..Len(cmds[t]) : IsCmd(cmds[t][k], cmd, addr)].res

\* C17: a get_info in which every command succeeds returns a hub list of
\* length hub_count (bits 15:8 of HW_INFO) if the ID (bits 31:16) is 0x5303,
\* and otherwise an empty one without having issued any command; hub i is at
\* position i with index i, its pod list has as many entries as the low byte
\* of the RD_POD_COUNT result of hub i, and pod j has index j
C17_EnumerationFollowsCounts ==
    \A t \in Callers :
        InfoReturned(t) /\ AllSucceeded(t) =>
            LET hubs == ret[t][1].hubs
                hub_count == (DevHwInfo \div 256) % 256
            IN  IF DevHwInfo \div 65536 = 21251
                THEN /\ Len(hubs) = hub_count
                     /\ \A i \in 0..(hub_count - 1) :
                            /\ hubs[i + 1].index = i
                            /\ Len(hubs[i + 1].pods)
                                 = ResultOf(t, CMD_RD_POD_COUNT, i * 65536)[1] % 256
                            /\ \A j \in 0..(Len(hubs[i + 1].pods) - 1) :
                                   hubs[i + 1].pods[j + 1].index = j
                ELSE hubs = <<>> /\ cmds[t] = <<>>

\* get_info has returned from the device with two hubs whose pod count words
\* are 0x01 and 0x0103: the pod lists have 1 and 3 entries
C17_Witness ==
    \E t \in Callers :
        /\ InfoReturned(t)
        /\ AllSucceeded(t)
        /\ (DevHwInfo \div 256) % 256 = 2
        /\ Len(ret[t][1].hubs) = 2
        /\ ResultOf(t, CMD_RD_POD_COUNT, 0) = Some(1)
        /\ ResultOf(t, CMD_RD_POD_COUNT, 65536) = Some(259)
        /\ Len(ret[t][1].hubs[1].pods) = 1
        /\ Len(ret[t][1].hubs[2].pods) = 3

\* the read of register reg of pod (hub, pod) by caller t failed
ReadFailed(t, hub, pod, reg) ==
    \E k \in 1..Len(cmds[t]) :
        /\ IsCmd(cmds[t][k], CMD_RD_POD_REG, hub * 65536 + pod * 256 + reg)
        /\ cmds[t][k].res = None

\* C18: when get_info returns, a pod whose HW_CFG, RAM_CFG or TRIGGERABLE
\* read failed is listed all the same, with every field derived from that
\* register 0: hw_rev and the flags; data_bits, ts_bits and ram_depth;
\* triggerable
C18_FailedReadGivesZeroFields ==
    \A t \in Callers :
        InfoReturned(t) =>
            \A hub \in 0..1, pod \in 0..2 :
                /\ (\E reg \in {POD_REG_HW_CFG, POD_REG_RAM_CFG, POD_REG_TRIGGERABLE} :
                        ReadFailed(t, hub, pod, reg))
                    => /\ Len(ret[t][1].hubs) > hub
                       /\ Len(ret[t][1].hubs[hub + 1].pods) > pod
                       /\ ret[t][1].hubs[hub + 1].pods[pod + 1].index = pod
                /\ ReadFailed(t, hub, pod, POD_REG_HW_CFG)
                    => LET p == ret[t][1].hubs[hub + 1].pods[pod + 1]
                       IN p.hw_rev = 0 /\ ~p.rle_disable /\ ~p.view_rom_en
                /\ ReadFailed(t, hub, pod, POD_REG_RAM_CFG)
                    => LET p == ret[t][1].hubs[hub + 1].pods[pod + 1]
                       IN p.data_bits = 0 /\ p.ts_bits = 0 /\ p.ram_depth = 0
                /\ ReadFailed(t, hub, pod, POD_REG_TRIGGERABLE)
                    => ret[t][1].hubs[hub + 1].pods[pod + 1].triggerable = 0

\* C19: get_info never fails as a whole, whatever the registers hold and
\* whichever commands fail: no call ends in an overflow or shift fault
C19_InfoNeverFails ==
    \A t \in Callers : args[t].op = "get_info" => pc[t] # "panic"

\* C25: hw_id is two characters, one for byte (id >> 8) & 0xFF and one for
\* byte id & 0xFF of the ID field of HW_INFO: an ASCII byte is rendered as
\* its character, a byte of 0x80..0xFF as '?'
C25_HwIdAsciiOrQuestionMark ==
    \A t \in Callers :
        InfoReturned(t) =>
            LET id == DevHwInfo \div 65536
                Rendered(byte) == IF byte < 128 THEN byte ELSE 63
            IN  ret[t][1].hw_id = <<Rendered(id \div 256), Rendered(id % 256)>>

\* the read of register reg of pod (hub, pod) by caller t returned v
ReadGave(t, hub, pod, reg, v) ==
    \E k \in 1..Len(cmds[t]) :
        /\ IsCmd(cmds[t][k], CMD_RD_POD_REG, hub * 65536 + pod * 256 + reg)
        /\ cmds[t][k].res = Some(v)

\* the pods get_info has returned whose RAM_CFG read returned v
PodsWithRamCfg(t, v) ==
    {hp \in (0..1) \X (0..2) :
        InfoReturned(t) /\ ReadGave(t, hp[1], hp[2], POD_REG_RAM_CFG, v)}

\* the pod (hub, pod) of the result of caller t
PodOf(t, hp) == ret[t][1].hubs[hp[1] + 1].pods[hp[2] + 1]

\* C22, as stated: a pod whose RAM_CFG reads 0x10080008 is reported with
\* ts_bits 16, data_bits 8 and ram_depth 256.  Bits [23:8] of that value are
\* 0x0800, so the pod is reported with data_bits 2048
C22_ExampleHasEightDataBits ==
    \A t \in Callers :
        \A hp \in PodsWithRamCfg(t, 268959752) :
            /\ PodOf(t, hp).ts_bits = 16
            /\ PodOf(t, hp).data_bits = 8
            /\ PodOf(t, hp).ram_depth = 256

\* the RAM_CFG values the devices of SpecInfo hold
RamCfgValues ==
    UNION {UNION {{InfoDevices[d].hubs[h].pods[p].ram_cfg :
                        p \in DOMAIN InfoDevices[d].hubs[h].pods} :
                    h \in DOMAIN InfoDevices[d].hubs} :
            d \in DOMAIN InfoDevices}

\* C22, amended: a pod whose RAM_CFG reads v is reported with ts_bits = bits
\* [31:24] of v, data_bits = bits [23:8] and, for depth_bits = bits [7:0]
\* below 32, ram_depth = 2^depth_bits; for 0x10080008 these are ts_bits 16,
\* data_bits 2048 and ram_depth 256
C22_RamCfgFields ==
    \A t \in Callers :
        /\ \A hp \in PodsWithRamCfg(t, 268959752) :
            /\ PodOf(t, hp).ts_bits = 16
            /\ PodOf(t, hp).data_bits = 2048
            /\ PodOf(t, hp).ram_depth = 256
        /\ \A v \in RamCfgValues :
            \A hp \in PodsWithRamCfg(t, v) :
                /\ PodOf(t, hp).ts_bits = v \div 16777216
                /\ PodOf(t, hp).data_bits = (v \div 256) % 65536
                /\ v % 256 < 32 => PodOf(t, hp).ram_depth = 2 ^ (v % 256)

\* get_info has returned a pod whose RAM_CFG read returned 0x10080008
C22_Witness ==
    \E t \in Callers :
        /\ PodsWithRamCfg(t, 268959752) = {<<0, 0>>}
        /\ PodOf(t, <<0, 0>>).data_bits = 2048
        /\ PodOf(t, <<0, 0>>).ram_depth = 256

\* ------------------------------------------------------------------------
\* Properties of the signal generator (SpecSignals)
\* ------------------------------------------------------------------------
\* caller t is back from generate_norom_signals
Generated(t) == args[t].op = "generate_norom_signals" /\ pc[t] = "ret"

\* the signals tile [0, data_bits): the first starts at bit 0, each next one
\* right above the one before, the last ends at bit data_bits - 1, and every
\* one has bit_low <= bit_high < data_bits
Tiles(signals, data_bits) ==
    /\ signals # <<>>
    /\ signals[1].bit_low = 0
    /\ \A k \in 2..Len(signals) : signals[k].bit_low = signals[k - 1].bit_high + 1
    /\ signals[Len(signals)].bit_high = data_bits - 1
    /\ \A k \in 1..Len(signals) :
        signals[k].bit_low <= signals[k].bit_high /\ signals[k].bit_high < data_bits

\* the widths the claim names
TiledWidths == {1, 8, 16, 33, 64, 65}

\* C20, as stated: for every combination of the view flags and rle_disable
\* and every data_bits in {1, 8, 16, 33, 64, 65}, the signals that
\* generate_norom_signals returns tile [0, data_bits).  It fails for a pod
\* whose name holds "adc" and "iq" and whose data_bits is 25 or more: the
\* three fixed signals end at bit 24
C20_TilesForEveryName ==
    \A t \in Callers :
        Generated(t) /\ loc[t].data_bits \in TiledWidths
            => Tiles(ret[t][1][2], loc[t].data_bits)

\* C20, amended: the same for every call in which the ADC I/Q layout does not
\* apply (the trimmed name lacks "adc" or "iq", or data_bits < 25)
C20_TilesUnlessAdcIq ==
    \A t \in Callers :
        /\ Generated(t)
        /\ loc[t].data_bits \in TiledWidths
        /\ ~AdcIqOverride(loc[t].pod_name, loc[t].data_bits)
        => Tiles(ret[t][1][2], loc[t].data_bits)

\* a call with data_bits 33 in words mode has returned its three windows, the
\* last one a single bit
C20_Witness ==
    \E t \in Callers :
        /\ Generated(t)
        /\ loc[t].data_bits = 33
        /\ ~AdcIqOverride(loc[t].pod_name, loc[t].data_bits)
        /\ ret[t][1][1] = "words"
        /\ Len(ret[t][1][2]) = 3
        /\ ret[t][1][2][3].bit_low = 32
        /\ ret[t][1][2][3].bit_high = 32

\* the view mode the flags of the call select: the first one set in the order
\* dwords, words, bytes, bits, and dwords if none is
FirstSetFlag(l) ==
    IF l.view_dwords THEN "dwords"
    ELSE IF l.view_words THEN "words"
    ELSE IF l.view_bytes THEN "bytes"
    ELSE IF l.view_bits THEN "bits"
    ELSE "dwords"

\* the window size of the claim for a view mode
ClaimedWindow(mode) == IF mode = "dwords" THEN 32 ELSE IF mode = "words" THEN 16 ELSE 8

\* C21: for every data_bits of 0..65535, a call in the view mode dwords,
\* words or bytes (window size 32, 16, 8) produces exactly
\* ceil(data_bits / size) signals, window i with bit_low = size * i and
\* bit_high = min(size * (i + 1) - 1, data_bits - 1), and a call in bits mode
\* produces exactly data_bits signals (calls of the ADC I/Q layout apart)
C21_WindowCounts ==
    \A t \in Callers :
        /\ args[t].op = "generate_norom_signals"
        /\ ~AdcIqOverride(loc[t].pod_name, loc[t].data_bits)
        => /\ pc[t] = "ret"
           /\ LET signals == ret[t][1][2]
                  d == loc[t].data_bits
                  size == ClaimedWindow(FirstSetFlag(loc[t]))
              IN  IF FirstSetFlag(loc[t]) = "bits"
                  THEN Len(signals) = d
                  ELSE /\ Len(signals) = (d + size - 1) \div size
                       /\ \A k \in 1..Len(signals) :
                            /\ signals[k].bit_low = size * (k - 1)
                            /\ signals[k].bit_high = Min(size * k - 1, d - 1)

\* the trimmed pod name of the call holds "adc" and "iq" (in lower case)
NamesAdcIq(l) ==
    LET n == Trim(l.pod_name) IN
        /\ \E k \in 1..(Len(n) - 2) : <<n[k], n[k + 1], n[k + 2]>> = <<97, 100, 99>>
        /\ \E k \in 1..(Len(n) - 1) : <<n[k], n[k + 1]>> = <<105, 113>>

\* C24: a call (view_rom_en clear) whose trimmed pod name holds "adc" and
\* "iq" and whose data_bits is 25 or more returns view_mode "iq" and exactly
\* adc_i (bits 11:0, analog), adc_q (bits 23:12, analog) and adc_valid (bit
\* 24, bit), whatever the four view flags and rle_disable are; any other call
\* returns as view mode the first set flag in the order dwords, words, bytes,
\* bits (dwords if none)
C24_AdcIqBeforeFlags ==
    \A t \in Callers :
        Generated(t) =>
            LET view_mode == ret[t][1][1]
                signals == ret[t][1][2]
            IN  IF NamesAdcIq(loc[t]) /\ loc[t].data_bits >= 25
                THEN /\ view_mode = "iq"
                     /\ [k \in 1..Len(signals) |->
                            <<signals[k].name, signals[k].bit_high, signals[k].bit_low,
                              signals[k].signal_type>>]
                        = << << <<"adc_i[11:0]">>, 11, 0, "analog">>,
                             << <<"adc_q[11:0]">>, 23, 12, "analog">>,
                             << <<"adc_valid">>, 24, 24, "bit">> >>
                ELSE view_mode = FirstSetFlag(loc[t])

\* the ADC I/Q layout was returned to a call with data_bits 25 whose flags
\* select the bits view, and not to a call like it with data_bits 24
C24_Witness ==
    \E t \in Callers :
        /\ Generated(t)
        /\ NamesAdcIq(loc[t])
        /\ loc[t].data_bits = 25
        /\ ~loc[t].view_dwords /\ ~loc[t].view_words /\ ~loc[t].view_bytes
        /\ loc[t].view_bits
        /\ ret[t][1][1] = "iq"
        /\ Len(ret[t][1][2]) = 3

\* ------------------------------------------------------------------------
\* Properties of concurrent operations (SpecConc)
\* ------------------------------------------------------------------------
\* where an operation is about to issue a command
CommandPcs ==
    {"cap_status", "cfg_rd", "rle_wr0", "rle_rd0", "rle_wr1", "rle_rd1", "ginfo_cap",
     "ginfo_hub_name", "ginfo_hub_freq", "ginfo_pod_count", "ginfo_pod_name",
     "ginfo_pod_hw_cfg", "ginfo_pod_ram_cfg", "ginfo_pod_trig"}

\* caller t is inside a capture or an enumeration, between two of its steps
InOperation(t) ==
    /\ args[t].op \in {"capture", "get_info"}
    /\ pc[t] \in CommandPcs \cup {"cap_count", "cap_loop", "ginfo_ret"}

AtLock(t) == pc[t] \in {"start", "info_lock_cap"}

\* the operation of caller t is over: it returned, or the process was aborted
Ended(t) == pc[t] \in {"done", "abort"}

\* every operation has returned and the mutex is free
AllReturned == mutex = 0 /\ \A t \in Callers : pc[t] = "done"

\* C27: whatever STATUS shows (never DONE, DONE with ERR, DONE without ERR),
\* an operation never calls lock() while it holds the mutex, does not hold
\* the mutex once it is over, and every operation returns: in the end
\* all operations have returned and the mutex is free for a following one
C27_TerminatesAndReleases ==
    /\ [](\A t \in Callers : (AtLock(t) \/ Ended(t)) => mutex # t)
    /\ <>[]AllReturned

\* C28: every access to the window recorded for any caller, whatever the
\* operation and its parameters, is at an offset that is a multiple of 4 and
\* lies within [0, ILA_SIZE - 4]
C28_AccessesAligned ==
    \A t \in Callers : \A i \in DOMAIN trace[t] :
        /\ trace[t][i].off % 4 = 0
        /\ trace[t][i].off >= 0
        /\ trace[t][i].off <= ILA_SIZE - 4

\* ------------------------------------------------------------------------
\* Frame of the read operations (SpecConc)
\* ------------------------------------------------------------------------
ReadCmds ==
    {CMD_RD_STATUS, CMD_RD_HUB_FREQ, CMD_RD_POD_COUNT, CMD_RD_POD_REG,
     CMD_RD_HUB_NAME_0_3, CMD_RD_HUB_NAME_4_7, CMD_RD_HUB_NAME_8_11}

\* C29: every command of an enumeration (info) or of a status request is a
\* read command, a register read issues no command at all, and every command
\* of a capture is a read command or WR_POD_REG to RAM_PTR of the requested
\* hub and pod: no state command and no other write command is issued
C29_ReadOperationsOnlyRead ==
    \A t \in Callers :
        /\ args[t].op = "get_register" => cmds[t] = <<>>
        /\ \A i \in DOMAIN cmds[t] :
            LET c == cmds[t][i] IN
            /\ args[t].op \in {"get_info", "status"} => c.cmd \in ReadCmds
            /\ args[t].op = "capture" =>
                \/ c.cmd \in ReadCmds
                \/ /\ c.cmd = CMD_WR_POD_REG
                   /\ c.addr = PodAddr(loc[t].hub, loc[t].pod, POD_REG_RAM_PTR)

\* a status request has issued its command while a capture of pod (1, 2) has
\* written RAM_PTR twice for a sample
C29_Witness ==
    \E t \in Callers, u \in Callers :
        /\ args[u].op = "status" /\ pc[u] = "ret"
        /\ Len(cmds[u]) = 1 /\ cmds[u][1].cmd = CMD_RD_STATUS
        /\ args[t].op = "capture" /\ pc[t] = "rle_rd1"
        /\ loc[t].hub = 1 /\ loc[t].pod = 2
        /\ Len(cmds[t]) = 3
        /\ cmds[t][1].cmd = CMD_WR_POD_REG /\ cmds[t][3].cmd = CMD_WR_POD_REG

====
